---- MODULE Spec2Model ----
(***************************************************************************)
(* Model of the browser-automation posting path of facebook_auto_posting:  *)
(* main.run_selenium_mode / run_playwright_mode, the two bots' session     *)
(* lifecycle (start_browser / close_browser / context manager), the        *)
(* multi-candidate element resolvers, the popup dismissers and login.      *)
(*                                                                         *)
(* The browser is a black box: every driver call (navigation, wait for a   *)
(* selector, click, fill) has its outcome chosen nondeterministically      *)
(* from the outcomes the driver library can produce.  Control is a call    *)
(* stack of frames [fn, at]; Head(stack) is the statement being executed.  *)
(* Time is counted in seconds.                                             *)
(***************************************************************************)
EXTENDS Integers, Sequences, FiniteSets, TLC

\* ---------------------------------------------------------------- bounds
MaxRuns == 2        \* postings run one after another from the menu
MaxDelay == 1       \* seconds an element may take to appear before a wait returns it
MaxMedia == 2       \* attachments given to one create_post

\* ------------------------------------------------------ program constants
DEFAULT_WAIT_TIME == 10          \* Config.DEFAULT_WAIT_TIME (seconds)
MANUAL_2FA_TIMEOUT == 30         \* login(manual_2fa_timeout=30)
SE_CHECKPOINT_SLEEP == 30        \* selenium login: time.sleep(30)
CHECKPOINT_POLL == 1             \* playwright login: time.sleep(1) in the 2FA loop
PW_POPUP_TIMEOUT_MS == 2000      \* _dismiss_popups: _try_click(..., timeout=2000)
PW_SAVE_LOGIN_TIMEOUT_MS == 3000 \* _dismiss_save_login_popup: timeout=3000
PW_EMAIL_TIMEOUT_MS == 10000     \* login: wait_for_selector(email, timeout=10000)
PW_COMPOSER_TIMEOUT_MS == 10000  \* create_post: _try_click(whats_on_your_mind, 10000)
PW_UPLOAD_TIMEOUT_MS == 5000     \* _upload_images: _try_click(photo_video_button, 5000)
SE_POPUP_WAIT == 2               \* selenium _dismiss_popups: WebDriverWait(driver, 2)
SE_SAVE_LOGIN_WAIT == 1          \* selenium _dismiss_save_login_popup: WebDriverWait(driver, 1)

\* One polling interval of a wait, in seconds (the resolver's polls are
\* sub-second; one second is the coarsest interval the code uses)
PollInterval == CHECKPOINT_POLL

MsToSec(ms) == ms \div 1000

\* ------------------------------------------------------------- locations
\* A location is the sequence of the URL's parts; the code only ever asks
\* whether a word occurs in the URL ("checkpoint" in url).
FACEBOOK_LOGIN_URL == <<"facebook.com", "login">>
FACEBOOK_HOME_URL == <<"facebook.com">>
CheckpointUrl == <<"facebook.com", "checkpoint">>
LoginCheckpointUrl == <<"facebook.com", "login", "checkpoint">>
BlankUrl == <<"about:blank">>

UrlContains(u, w) == \E i \in 1..Len(u) : u[i] = w

\* where the browser may be after the login form was submitted
PostSubmitUrls == {FACEBOOK_HOME_URL, FACEBOOK_LOGIN_URL, CheckpointUrl, LoginCheckpointUrl}
\* where a checkpoint page may go while a human acts on it
CheckpointExitUrls == {FACEBOOK_HOME_URL, FACEBOOK_LOGIN_URL}

IsCheckpoint(u) == UrlContains(u, "checkpoint")
\* the success test of both logins:
\* "facebook.com" in current_url and "login" not in current_url
LoginSucceeded(u) == UrlContains(u, "facebook.com") /\ ~UrlContains(u, "login")
\* the main site: a facebook.com location that is neither the login path nor a checkpoint
IsMainSite(u) == UrlContains(u, "facebook.com") /\ ~UrlContains(u, "login") /\ ~IsCheckpoint(u)

\* ------------------------------------------------------------- selectors
PW_SELECTORS ==
  [ whats_on_your_mind |-> <<"span_mind_ko", "span_mind_en", "aria_mind_ko", "aria_mind_en">>,
    post_button        |-> <<"div_post_ko", "div_post_en", "span_post_ko", "span_post_en">>,
    photo_video_button |-> <<"aria_photo_ko", "aria_photo_en", "aria_photo_part_en", "aria_photo_part_ko">>,
    close_buttons      |-> <<"aria_close_ko", "aria_close_en", "div_close_ko", "div_close_en">>,
    not_now_buttons    |-> <<"span_later_ko", "span_not_now_en", "span_not_now_lower_en">>,
    save_login_cancel  |-> <<"aria_cancel_ko", "aria_cancel_en", "div_cancel_ko", "div_cancel_en",
                             "span_cancel_ko", "span_decline_en", "button_cancel_ko",
                             "button_cancel_en", "aria_next_time_ko", "span_next_time_ko">> ]

SE_POPUP_SELECTORS == <<"close_popup", "close_popup_en", "not_now_button", "not_now_button_en">>
SE_SAVE_LOGIN_SELECTORS == <<"save_login_cancel", "save_login_cancel_en", "save_login_decline",
                             "save_login_decline_en", "save_login_not_now">>
SE_COMPOSER_SELECTORS == <<"whats_on_your_mind", "whats_on_your_mind_en">>
SE_POST_BOX_SELECTORS == <<"post_box">>
SE_POST_BUTTON_SELECTORS == <<"post_button", "post_button_en">>
SE_PHOTO_SELECTORS == <<"photo_video_button", "photo_video_button_en">>

\* ----------------------------------------------------------------- state
VARIABLES
  bot,        \* "none" | "selenium" | "playwright": the bot of the current run
  runs,       \* number of runs started from the menu
  stack,      \* call stack, innermost frame first
  exc,        \* the exception last raised: "none" | "Timeout" | "Error" | "Base"
  creds,      \* [email, password]: the configured credentials
  res,        \* the bot's resources: name -> "none" | "live" | "released"
  sess,       \* session lifecycle history of the run
  url,        \* current location of the page
  rs,         \* the resolver call in progress or last finished
  sw,         \* the dismisser sweep in progress or last finished
  cpI,        \* seconds waited in the checkpoint loop
  h,          \* history of the login of the run
  p,          \* create_post of the run: its arguments and history
  eq,         \* the two bots side by side: a page behaviour and both outcomes
  api         \* the call of the HTTP-API transport last made and how it ended

vars == <<bot, runs, stack, exc, creds, res, sess, url, rs, sw, cpI, h, p, eq, api>>

F(fn, at) == [fn |-> fn, at |-> at]
Top == Head(stack)
At(fn, at) == stack # <<>> /\ Top = F(fn, at)

Bots == {"selenium", "playwright"}
Resources == {"playwright", "browser", "context", "page", "driver"}
\* acquisition order of start_browser
PwAcquireOrder == <<"playwright", "browser", "context", "page">>
\* release order of close_browser (context.close() also closes its page)
PwReleaseOrder == <<"context", "browser", "playwright">>

NoRes == [r \in Resources |-> "none"]
NoFile == [exists |-> FALSE, ext |-> ""]
NoApi == [fn |-> "none", message |-> "", media |-> <<>>, routed |-> "none",
          raised |-> "none", requests |-> 0]
NoEq == [fn |-> "none", page |-> <<>>, playwright |-> "none", selenium |-> "none"]
NoSess == [entered |-> FALSE, startFailed |-> FALSE, closeCalls |-> 0,
           closeDone |-> FALSE, closeRaised |-> FALSE, attempted |-> {},
           bodyRaised |-> FALSE, interrupted |-> FALSE, configError |-> FALSE]
NoRs == [fn |-> "none", key |-> "none", n |-> 0, i |-> 0, timeout |-> 0, elapsed |-> 0,
         firstMatch |-> 0, lastEval |-> 0, clicked |-> 0, result |-> "none", nav |-> 0]
NoSw == [kind |-> "none", active |-> FALSE, found |-> FALSE, clicked |-> FALSE,
         raised |-> FALSE, done |-> FALSE, fallback |-> "none", i |-> 0, url0 |-> BlankUrl,
         tried |-> 0, dismissed |-> FALSE, scanAfter |-> 0, scanClicks |-> 0]
NoH == [navs |-> 0, emailRes |-> "none", emailFilled |-> FALSE, passAttempted |-> FALSE,
        submits |-> 0, cpSeen |-> FALSE, cpEnd |-> "none", detected |-> FALSE,
        result |-> "none", propagated |-> FALSE, finalUrl |-> BlankUrl, sweeps |-> {},
        echo |-> FALSE, diag |-> "none", cpClearedAt |-> 0, passFilled |-> FALSE]
NoP == [nmedia |-> 0, media |-> <<>>, navs |-> 0, composer |-> FALSE, upload |-> "none", fed |-> <<>>,
        k |-> 0, text |-> FALSE, submit |-> FALSE, result |-> "none",
        composerRes |-> "none", submitRes |-> "none", msg |-> "none", cause |-> "none",
        inputNav |-> 0, stale |-> FALSE, steps |-> <<>>]

Init ==
  /\ bot = "none"
  /\ runs = 0
  /\ stack = <<F("main", "menu")>>
  /\ exc = "none"
  /\ creds = [email |-> "", password |-> ""]
  /\ res = NoRes
  /\ sess = NoSess
  /\ url = BlankUrl
  /\ rs = NoRs
  /\ sw = NoSw
  /\ cpI = 0
  /\ h = NoH
  /\ p = NoP
  /\ eq = NoEq
  /\ api = NoApi

\* ------------------------------------------------------------ exceptions
ExceptionClasses == {"Timeout", "Error"}     \* subclasses of Exception
DismisserFns == {"dismiss_popups", "save_login"}
WithBodyAts == {"login", "after_login", "after_post"}

\* variant: login, create_post and the upload catch the timeout class only
Catches_TimeoutOnly(f, e) ==
  \/ f.fn \in {"login", "create_post", "upload"} /\ e = "Timeout"
  \/ f.fn = "run" /\ f.at \in WithBodyAts

\* Does the try block around frame f catch e?
Catches(f, e) ==
  \/ f.fn \in {"login", "create_post", "upload"} /\ e \in ExceptionClasses
  \/ f.fn = "run" /\ f.at \in WithBodyAts

HandlerOf(f) == IF f.fn = "run" THEN F("run", "exit_exc") ELSE F(f.fn, "except")

RECURSIVE Unwind(_, _)
Unwind(st, e) ==
  IF st = <<>> THEN <<F("main", "crashed")>>
  ELSE IF Catches(Head(st), e) THEN <<HandlerOf(Head(st))>> \o Tail(st)
  ELSE Unwind(Tail(st), e)

InDismisser(st) == \E k \in 1..Len(st) : st[k].fn \in DismisserFns

\* an exception e leaves the statement at the top of the stack; hh and sww
\* are the login history and the sweep record as the statement left them
Raise(e, hh, sww) ==
  /\ stack' = Unwind(stack, e)
  /\ exc' = e
  /\ sw' = IF sww.active THEN [sww EXCEPT !.active = FALSE, !.raised = TRUE, !.done = TRUE] ELSE NoSw
  /\ h' = IF InDismisser(stack) /\ e \in ExceptionClasses
          THEN [hh EXCEPT !.propagated = TRUE] ELSE hh

Call(entry, cont) == stack' = <<entry, cont>> \o Tail(stack)
Goto(at) == stack' = <<F(Top.fn, at)>> \o Tail(stack)
Return == stack' = Tail(stack)

\* ------------------------------------------------------- main.py: one run
\* interactive_mode / cli_mode: choose a mode and start run_*_mode
StartRun ==
  /\ At("main", "menu")
  /\ runs < MaxRuns
  /\ \E b \in Bots, em \in {"", "user"}, pw \in {"", "secret"} :
       /\ bot' = b
       /\ creds' = [email |-> em, password |-> pw]
  /\ runs' = runs + 1
  /\ stack' = <<F("run", "construct")>>
  /\ exc' = "none"
  /\ res' = NoRes
  /\ sess' = NoSess
  /\ url' = BlankUrl
  /\ rs' = NoRs
  /\ sw' = NoSw
  /\ cpI' = 0
  /\ h' = NoH
  /\ p' = NoP

  /\ UNCHANGED <<eq, api>>
\* _validate_credentials: not self.email or not self.password
CredentialsMissing(c) == c.email = "" \/ c.password = ""

\* self.email = email or Config.EMAIL: an argument that is None or empty
\* gives way to the configured value
Fallback(arg, conf) == IF arg # "" THEN arg ELSE conf

\* the credentials the bot holds; run_*_mode passes neither email nor password
BotCredentials ==
  [email |-> Fallback("", creds.email), password |-> Fallback("", creds.password)]

\* variant: a constructor that does not call _validate_credentials
Construct_NoValidation ==
  /\ At("run", "construct")
  /\ Goto("enter")
  /\ UNCHANGED <<p, bot, runs, exc, creds, res, sess, url, rs, sw, cpI, h>>

  /\ UNCHANGED <<eq, api>>
\* Bot.__init__ inside run_*_mode's try
Construct ==
  /\ At("run", "construct")
  /\ IF CredentialsMissing(BotCredentials)
     THEN /\ exc' = "Error"             \* ValueError, caught by except Exception
          /\ sess' = [sess EXCEPT !.configError = TRUE]
          /\ Goto("except")
     ELSE /\ exc' = exc
          /\ sess' = sess
          /\ Goto("enter")
  /\ UNCHANGED <<p, bot, runs, creds, res, url, rs, sw, cpI, h>>

  /\ UNCHANGED <<eq, api>>
\* the resources start_browser holds when its step failAt raises (0: none raises)
PwAcquired(failAt) ==
  {PwAcquireOrder[k] : k \in {j \in 1..Len(PwAcquireOrder) : failAt = 0 \/ j < failAt}}

\* FacebookPlaywrightBot.__enter__ / start_browser: sync_playwright().start(),
\* chromium.launch, new_context, new_page, add_init_script; no step is guarded
PwStartBrowser ==
  /\ At("run", "enter") /\ bot = "playwright"
  /\ \E failAt \in 0..5 :
       /\ res' = [r \in Resources |-> IF r \in PwAcquired(failAt) THEN "live" ELSE res[r]]
       /\ IF failAt = 0
          THEN /\ sess' = [sess EXCEPT !.entered = TRUE]
               /\ exc' = exc
               /\ Goto("login")
          ELSE /\ sess' = [sess EXCEPT !.startFailed = TRUE]
               /\ exc' = "Error"
               /\ Goto("except")
  /\ UNCHANGED <<p, bot, runs, creds, url, rs, sw, cpI, h>>

  /\ UNCHANGED <<eq, api>>
\* step 1: ChromeDriverManager().install(), 2: webdriver.Chrome(...),
\* 3: execute_script(...) after the driver exists
SeAcquired(failAt) == IF failAt \in {0, 3} THEN {"driver"} ELSE {}

\* FacebookSeleniumBot.__enter__ / start_browser: WebDriverException becomes
\* RuntimeError, nothing is released
SeStartBrowser ==
  /\ At("run", "enter") /\ bot = "selenium"
  /\ \E failAt \in 0..3 :
       /\ res' = [r \in Resources |-> IF r \in SeAcquired(failAt) THEN "live" ELSE res[r]]
       /\ IF failAt = 0
          THEN /\ sess' = [sess EXCEPT !.entered = TRUE]
               /\ exc' = exc
               /\ Goto("login")
          ELSE /\ sess' = [sess EXCEPT !.startFailed = TRUE]
               /\ exc' = "Error"
               /\ Goto("except")
  /\ UNCHANGED <<p, bot, runs, creds, url, rs, sw, cpI, h>>

  /\ UNCHANGED <<eq, api>>
\* close_browser: the releases that can raise are those of held resources
PwCloseFailPoints == {0} \cup {k \in 1..Len(PwReleaseOrder) : res[PwReleaseOrder[k]] = "live"}

\* the releases close_browser attempts when release failAt raises
PwCloseAttempted(failAt) ==
  {PwReleaseOrder[k] : k \in {j \in 1..Len(PwReleaseOrder) :
       (failAt = 0 \/ j <= failAt) /\ res[PwReleaseOrder[j]] # "none"}}

\* the releases that completed
PwCloseReleased(failAt) ==
  {PwReleaseOrder[k] : k \in {j \in 1..Len(PwReleaseOrder) :
       (failAt = 0 \/ j < failAt) /\ res[PwReleaseOrder[j]] # "none"}}

SeCloseFailPoints == {0} \cup (IF res["driver"] = "live" THEN {1} ELSE {})
SeCloseAttempted(failAt) == IF res["driver"] # "none" THEN {"driver"} ELSE {}
SeCloseReleased(failAt) == IF res["driver"] # "none" /\ failAt = 0 THEN {"driver"} ELSE {}

CloseFailPoints == IF bot = "playwright" THEN PwCloseFailPoints ELSE SeCloseFailPoints
CloseAttempted(failAt) ==
  IF bot = "playwright" THEN PwCloseAttempted(failAt) ELSE SeCloseAttempted(failAt)
CloseReleased(failAt) ==
  IF bot = "playwright" THEN PwCloseReleased(failAt) ELSE SeCloseReleased(failAt)

\* close_browser of either bot, release failAt raising (0: none)
CloseBrowser(failAt) ==
  /\ res' = [r \in Resources |->
               IF r \in CloseReleased(failAt) \/ (r = "page" /\ "context" \in CloseReleased(failAt)
                                                   /\ res[r] # "none")
               THEN "released" ELSE res[r]]
  /\ sess' = [sess EXCEPT !.closeCalls = @ + 1,
                          !.closeDone = TRUE,
                          !.closeRaised = (failAt # 0),
                          !.attempted = CloseAttempted(failAt),
                          !.bodyRaised = (Top.at = "exit_exc")]

\* __exit__ after the with body finished normally
WithExit ==
  /\ At("run", "exit")
  /\ \E failAt \in CloseFailPoints :
       /\ CloseBrowser(failAt)
       /\ IF failAt = 0
          THEN exc' = exc /\ Goto("done")
          ELSE exc' = "Error" /\ Goto("except")
  /\ UNCHANGED <<p, bot, runs, creds, url, rs, sw, cpI, h>>

  /\ UNCHANGED <<eq, api>>
\* variant: the exception leaves the body with no close_browser call, as
\* with start_browser(); ...; close_browser() written without a context manager
WithExitOnRaise_NoClose ==
  /\ At("run", "exit_exc")
  /\ IF exc \in ExceptionClasses THEN Goto("except") ELSE stack' = <<F("main", "crashed")>>
  /\ sess' = [sess EXCEPT !.bodyRaised = TRUE]
  /\ rs' = NoRs /\ sw' = NoSw /\ cpI' = 0
  /\ UNCHANGED <<p, bot, runs, exc, creds, res, url, h>>

  /\ UNCHANGED <<eq, api>>
\* __exit__ while an exception leaves the with body; it returns None, so the
\* exception goes on unless close_browser raises one of its own
WithExitOnRaise ==
  /\ At("run", "exit_exc")
  /\ \E failAt \in CloseFailPoints :
       /\ CloseBrowser(failAt)
       /\ IF failAt # 0
          THEN exc' = "Error" /\ Goto("except")
          ELSE /\ exc' = exc
               /\ IF exc \in ExceptionClasses
                  THEN Goto("except")
                  ELSE stack' = <<F("main", "crashed")>>
  /\ rs' = NoRs /\ sw' = NoSw /\ cpI' = 0
  /\ UNCHANGED <<p, bot, runs, creds, url, h>>

  /\ UNCHANGED <<eq, api>>
\* run_*_mode: except Exception as e: print
RunExcept ==
  /\ At("run", "except")
  /\ Goto("done")
  /\ exc' = "none"
  /\ UNCHANGED <<p, bot, runs, creds, res, sess, url, rs, sw, cpI, h>>

  /\ UNCHANGED <<eq, api>>
\* run_*_mode returns to the menu
RunReturn ==
  /\ At("run", "done")
  /\ stack' = <<F("main", "menu")>>
  /\ UNCHANGED <<p, bot, runs, exc, creds, res, sess, url, rs, sw, cpI, h>>

  /\ UNCHANGED <<eq, api>>
\* with ... as bot: if bot.login(...)
CallLogin ==
  /\ At("run", "login")
  /\ Call(F("login", "goto"), F("run", "after_login"))
  /\ UNCHANGED <<p, bot, runs, exc, creds, res, sess, url, rs, sw, cpI, h>>

  /\ UNCHANGED <<eq, api>>
\* KeyboardInterrupt delivered while the with body runs (at most once a run)
Interrupt ==
  /\ stack # <<>>
  /\ stack[Len(stack)].fn = "run" /\ stack[Len(stack)].at \in WithBodyAts
  /\ ~sess.interrupted
  /\ sess' = [sess EXCEPT !.interrupted = TRUE]
  /\ IF Top = F("login", "cp_loop")
     THEN /\ Goto("cp_except")          \* bare except: in the 2FA wait
          /\ UNCHANGED <<rs, sw, cpI>>
     ELSE /\ stack' = Unwind(stack, "Base")
          /\ rs' = NoRs /\ sw' = NoSw /\ cpI' = 0   \* the calls in progress are abandoned
  /\ exc' = "Base"
  /\ UNCHANGED <<p, bot, runs, creds, res, url, h>>

  /\ UNCHANGED <<eq, api>>
\* ------------------------------------------- playwright: _try_click
\* the sweep record after one more pattern of the sweep was waited for:
\* in vain (SwTried), found and the click failed (SwClicked), found and
\* clicked away (SwDismissed)
SwFound == IF sw.active THEN [sw EXCEPT !.found = TRUE] ELSE sw
SwTried == IF sw.active THEN [sw EXCEPT !.tried = @ + 1] ELSE sw
SwClicked ==
  IF sw.active THEN [sw EXCEPT !.found = TRUE, !.clicked = TRUE, !.tried = @ + 1] ELSE sw
SwDismissed ==
  IF sw.active
  THEN [sw EXCEPT !.found = TRUE, !.clicked = TRUE, !.tried = @ + 1, !.dismissed = TRUE]
  ELSE sw

\* self._try_click(self.SELECTORS[key], timeout=timeoutMs), resuming at cont
TryClickCall(key, timeoutMs, cont) ==
  /\ Call(F("try_click", "loop"), cont)
  /\ rs' = [fn |-> "try_click", key |-> key, n |-> Len(PW_SELECTORS[key]), i |-> 1,
            timeout |-> MsToSec(timeoutMs), elapsed |-> 0, firstMatch |-> 0,
            lastEval |-> 0, clicked |-> 0, result |-> "none", nav |-> 0]

\* the navigations of the session so far: page.goto / driver.get of the
\* login page and of the home page, and the click on the login button
Navigations == h.navs + h.submits + p.navs

\* the resolver record after candidate rs.i was waited for during d seconds
\* and did (matched) or did not resolve to an element; nav is the number of
\* navigations the resolved element was found after
Evaluated(matched, d) ==
  [rs EXCEPT !.lastEval = rs.i,
             !.elapsed = @ + d,
             !.firstMatch = IF matched /\ @ = 0 THEN rs.i ELSE @,
             !.nav = IF matched THEN Navigations ELSE @]

\* for selector in selectors: continue, or return False after the last one
NextCandidate(r) ==
  IF r.i < r.n THEN [r EXCEPT !.i = @ + 1] ELSE [r EXCEPT !.result = "false"]

\* the delays after which a wait with the given timeout can return an element
MatchDelays(timeout) == {d \in 0..MaxDelay : d <= timeout}

\* variant: _try_click without its except PlaywrightTimeoutError: continue,
\* so the first wait that times out leaves _try_click
TryClickStep_NoCatch ==
  /\ At("try_click", "loop")
  /\ \/ /\ rs' = [Evaluated(FALSE, rs.timeout) EXCEPT !.result = "raised"]
        /\ Raise("Timeout", h, sw)
     \/ /\ \E d \in MatchDelays(rs.timeout) :
             rs' = [Evaluated(TRUE, d) EXCEPT !.clicked = rs.i, !.result = "true"]
        /\ Return
        /\ sw' = SwDismissed
        /\ UNCHANGED <<exc, h>>
  /\ UNCHANGED <<p, bot, runs, creds, res, sess, url, cpI>>

  /\ UNCHANGED <<eq, api>>
\* one iteration of _try_click's loop: wait_for_selector(selector, timeout,
\* state="visible") then element.click().  A click that times out raises
\* PlaywrightTimeoutError (caught: continue); any other driver error leaves
\* _try_click.  The time a click itself takes is not counted.
TryClickStep ==
  /\ At("try_click", "loop")
  /\ \/ \* wait_for_selector times out
        /\ rs' = NextCandidate(Evaluated(FALSE, rs.timeout))
        /\ IF rs.i < rs.n THEN UNCHANGED stack ELSE Return
        /\ sw' = SwTried
        /\ UNCHANGED <<exc, h>>
     \/ \* element found and clicked
        /\ \E d \in MatchDelays(rs.timeout) :
             rs' = [Evaluated(TRUE, d) EXCEPT !.clicked = rs.i, !.result = "true"]
        /\ Return
        /\ sw' = SwDismissed
        /\ UNCHANGED <<exc, h>>
     \/ \* element found, click times out
        /\ \E d \in MatchDelays(rs.timeout) :
             rs' = NextCandidate(Evaluated(TRUE, d))
        /\ IF rs.i < rs.n THEN UNCHANGED stack ELSE Return
        /\ sw' = SwClicked
        /\ UNCHANGED <<exc, h>>
     \/ \* element found, click raises another driver error
        /\ \E d \in MatchDelays(rs.timeout) :
             rs' = [Evaluated(TRUE, d) EXCEPT !.result = "raised"]
        /\ Raise("Error", h, SwClicked)
  /\ UNCHANGED <<p, bot, runs, creds, res, sess, url, cpI>>

  /\ UNCHANGED <<eq, api>>
\* ------------------------------------------- playwright: dismissers
\* the login history after a dismisser was entered: login's dismisser calls
\* are recorded by the statement they return to
SweepLogged ==
  IF Len(stack) >= 2 /\ stack[2].fn = "login"
  THEN [h EXCEPT !.sweeps = @ \cup {stack[2].at}] ELSE h

\* the posting history after _dismiss_popups was entered from create_post
PostSwept ==
  IF Len(stack) >= 2 /\ stack[2].fn = "create_post"
  THEN [p EXCEPT !.steps = Append(@, "sweep")] ELSE p

\* the number of patterns _dismiss_popups of bot b goes through
SweepPatterns(b) ==
  IF b = "playwright"
  THEN Len(PW_SELECTORS.close_buttons) + Len(PW_SELECTORS.not_now_buttons)
  ELSE Len(SE_POPUP_SELECTORS)

\* the number of structured selectors _dismiss_save_login_popup of bot b has
SaveLoginPatterns(b) ==
  IF b = "playwright" THEN Len(PW_SELECTORS.save_login_cancel)
  ELSE Len(SE_SAVE_LOGIN_SELECTORS)

SweepStart(kind) ==
  [kind |-> kind, active |-> TRUE, found |-> FALSE, clicked |-> FALSE,
   raised |-> FALSE, done |-> FALSE, fallback |-> "none", i |-> 0, url0 |-> url,
   tried |-> 0, dismissed |-> FALSE, scanAfter |-> 0, scanClicks |-> 0]

\* _dismiss_popups: time.sleep(1); _try_click(close_buttons, 2000)
PwDismissPopups ==
  /\ At("dismiss_popups", "start") /\ bot = "playwright"
  /\ TryClickCall("close_buttons", PW_POPUP_TIMEOUT_MS, F("dismiss_popups", "not_now"))
  /\ sw' = SweepStart("popups")
  /\ UNCHANGED <<bot, runs, exc, creds, res, sess, url, cpI>>
  /\ h' = SweepLogged
  /\ p' = PostSwept

  /\ UNCHANGED <<eq, api>>
\* _dismiss_popups: _try_click(not_now_buttons, 2000)
PwDismissPopupsNotNow ==
  /\ At("dismiss_popups", "not_now") /\ bot = "playwright"
  /\ TryClickCall("not_now_buttons", PW_POPUP_TIMEOUT_MS, F("dismiss_popups", "return"))
  /\ UNCHANGED <<p, bot, runs, exc, creds, res, sess, url, sw, cpI, h>>

  /\ UNCHANGED <<eq, api>>
\* the dismisser returns to its caller
SweepReturn ==
  /\ stack # <<>> /\ Top.fn \in DismisserFns /\ Top.at = "return"
  /\ Return
  /\ sw' = [sw EXCEPT !.active = FALSE, !.done = TRUE]
  /\ rs' = NoRs
  /\ UNCHANGED <<p, bot, runs, exc, creds, res, sess, url, cpI, h>>

  /\ UNCHANGED <<eq, api>>
\* _dismiss_save_login_popup: time.sleep(1); _try_click(save_login_cancel, 3000)
PwDismissSaveLogin ==
  /\ At("save_login", "start") /\ bot = "playwright"
  /\ TryClickCall("save_login_cancel", PW_SAVE_LOGIN_TIMEOUT_MS, F("save_login", "fallback"))
  /\ sw' = SweepStart("save_login")
  /\ UNCHANGED <<p, bot, runs, exc, creds, res, sess, url, cpI>>
  /\ h' = SweepLogged

  /\ UNCHANGED <<eq, api>>
\* _dismiss_save_login_popup after _try_click: return if it clicked, else
\* scan the buttons' texts and click the first one that carries a dismissal
\* label; the whole scan is inside try / except Exception: pass
PwSaveLoginFallback ==
  /\ At("save_login", "fallback") /\ bot = "playwright"
  /\ IF rs.result = "true"
     THEN UNCHANGED sw
     ELSE \E scan \in {"no_label", "clicked", "click_raised", "scan_raised"} :
            sw' = [sw EXCEPT !.fallback = scan,
                             !.found = @ \/ scan \in {"clicked", "click_raised"},
                             !.clicked = @ \/ scan \in {"clicked", "click_raised"},
                             !.dismissed = @ \/ scan = "clicked",
                             !.scanAfter = sw.tried,
                             !.scanClicks = IF scan = "clicked" THEN @ + 1 ELSE @]
  /\ Goto("return")
  /\ UNCHANGED <<p, bot, runs, exc, creds, res, sess, url, rs, cpI, h>>

  /\ UNCHANGED <<eq, api>>
\* ------------------------------------------------- playwright: login
\* variant: a login that goes from the navigation straight to the email field
PwLoginGoto_NoSweep ==
  /\ At("login", "goto") /\ bot = "playwright"
  /\ \/ /\ url' = FACEBOOK_LOGIN_URL
        /\ h' = [h EXCEPT !.navs = @ + 1]
        /\ Goto("email")
        /\ UNCHANGED <<exc, sw>>
     \/ /\ \E e \in ExceptionClasses : Raise(e, h, sw)
        /\ UNCHANGED url
  /\ UNCHANGED <<p, bot, runs, creds, res, sess, rs, cpI>>

  /\ UNCHANGED <<eq, api>>
\* page.goto(FACEBOOK_LOGIN_URL); wait_for_load_state("networkidle");
\* self._dismiss_popups()
PwLoginGoto ==
  /\ At("login", "goto") /\ bot = "playwright"
  /\ \/ /\ url' = FACEBOOK_LOGIN_URL
        /\ h' = [h EXCEPT !.navs = @ + 1]
        /\ Call(F("dismiss_popups", "start"), F("login", "email"))
        /\ UNCHANGED <<exc, sw>>
     \/ /\ \E e \in ExceptionClasses : Raise(e, h, sw)
        /\ UNCHANGED url
  /\ UNCHANGED <<p, bot, runs, creds, res, sess, rs, cpI>>

  /\ UNCHANGED <<eq, api>>
\* variant: a login that goes on to the password field when the email
\* field did not resolve
PwLoginEmail_IgnoreTimeout ==
  /\ At("login", "email") /\ bot = "playwright"
  /\ \/ h' = [h EXCEPT !.emailRes = "timeout"]
     \/ h' = [h EXCEPT !.emailRes = "found", !.emailFilled = TRUE]
  /\ Goto("password")
  /\ sw' = NoSw
  /\ UNCHANGED <<p, bot, runs, exc, creds, res, sess, url, rs, cpI>>

  /\ UNCHANGED <<eq, api>>
\* email_input = wait_for_selector(email_input, timeout=10000); fill(email)
PwLoginEmail ==
  /\ At("login", "email") /\ bot = "playwright"
  /\ \/ /\ Raise("Timeout", [h EXCEPT !.emailRes = "timeout"], sw)
     \/ /\ Raise("Error", [h EXCEPT !.emailRes = "found"], sw)      \* fill raises
     \/ /\ h' = [h EXCEPT !.emailRes = "found", !.emailFilled = TRUE]
        /\ Goto("password")
        /\ sw' = NoSw
        /\ UNCHANGED exc
  /\ UNCHANGED <<p, bot, runs, creds, res, sess, url, rs, cpI>>

  /\ UNCHANGED <<eq, api>>
\* password_input = wait_for_selector(password_input); fill(password)
PwLoginPassword ==
  /\ At("login", "password") /\ bot = "playwright"
  /\ \/ /\ Raise("Timeout", h, sw)
     \/ /\ \E e \in ExceptionClasses, q \in BOOLEAN :     \* fill(self.password) raises;
             Raise(e, [h EXCEPT !.passAttempted = TRUE, !.echo = q], sw)   \* q: the message quotes the call
     \/ /\ h' = [h EXCEPT !.passAttempted = TRUE, !.passFilled = TRUE]
        /\ Goto("submit")
        /\ UNCHANGED <<exc, sw>>
  /\ UNCHANGED <<p, bot, runs, creds, res, sess, url, rs, cpI>>

  /\ UNCHANGED <<eq, api>>
\* login_button = wait_for_selector(login_button); click();
\* wait_for_load_state("networkidle"); time.sleep(3)
PwLoginSubmit ==
  /\ At("login", "submit") /\ bot = "playwright"
  /\ \/ /\ Raise("Timeout", h, sw)                                  \* button never appears
        /\ UNCHANGED url
     \/ /\ \E e \in ExceptionClasses : Raise(e, [h EXCEPT !.submits = @ + 1], sw)  \* click raises
        /\ UNCHANGED url
     \/ /\ \E u \in PostSubmitUrls : url' = u                   \* clicked, load never settles
        /\ Raise("Timeout", [h EXCEPT !.submits = @ + 1], sw)
     \/ /\ \E u \in PostSubmitUrls : url' = u
        /\ h' = [h EXCEPT !.submits = @ + 1]
        /\ Goto("cp_check")
        /\ UNCHANGED <<exc, sw>>
  /\ UNCHANGED <<p, bot, runs, creds, res, sess, rs, cpI>>

  /\ UNCHANGED <<eq, api>>
\* if "checkpoint" in self.page.url: ... for i in range(manual_2fa_timeout)
PwLoginCheckpointCheck ==
  /\ At("login", "cp_check") /\ bot = "playwright"
  /\ IF IsCheckpoint(url)
     THEN /\ h' = [h EXCEPT !.cpSeen = TRUE]
          /\ Goto("cp_loop")
     ELSE /\ h' = h
          /\ Goto("verdict")
  /\ cpI' = 0
  /\ UNCHANGED <<p, bot, runs, exc, creds, res, sess, url, rs, sw>>

  /\ UNCHANGED <<eq, api>>
\* where a checkpoint page may be one sleep later
AfterCheckpointWait(u) == IF IsCheckpoint(u) THEN {u} \cup CheckpointExitUrls ELSE {u}

\* the second of the 2FA wait at which the location stopped indicating a
\* checkpoint (0: it still does), u being the location t seconds into the wait
ClearedAt(u, t) == IF IsCheckpoint(u) THEN 0 ELSE t

\* variant: the iteration counter starts over instead of ending the loop
PwCheckpointPoll_CounterWraps ==
  /\ At("login", "cp_loop") /\ bot = "playwright"
  /\ IF IsCheckpoint(url)
     THEN /\ cpI' = (cpI + CHECKPOINT_POLL) % MANUAL_2FA_TIMEOUT
          /\ \E u \in AfterCheckpointWait(url) : url' = u
          /\ UNCHANGED stack
     ELSE /\ Goto("verdict")
          /\ UNCHANGED <<cpI, url>>
  /\ UNCHANGED <<p, bot, runs, exc, creds, res, sess, rs, sw, h>>

  /\ UNCHANGED <<eq, api>>
\* one iteration of the 2FA wait: break when the checkpoint is gone, else
\* time.sleep(1); the loop ends after manual_2fa_timeout iterations
PwCheckpointPoll ==
  /\ At("login", "cp_loop") /\ bot = "playwright"
  /\ IF cpI < MANUAL_2FA_TIMEOUT /\ IsCheckpoint(url)
     THEN /\ cpI' = cpI + CHECKPOINT_POLL
          /\ \E u \in AfterCheckpointWait(url) :
               /\ url' = u
               /\ h' = [h EXCEPT !.cpClearedAt = ClearedAt(u, cpI + CHECKPOINT_POLL)]
          /\ UNCHANGED stack
     ELSE /\ Goto("verdict")
          /\ UNCHANGED <<cpI, url, h>>
  /\ UNCHANGED <<p, bot, runs, exc, creds, res, sess, rs, sw>>

  /\ UNCHANGED <<eq, api>>
\* except: time.sleep(manual_2fa_timeout) around the 2FA wait
PwCheckpointExcept ==
  /\ At("login", "cp_except") /\ bot = "playwright"
  /\ cpI' = cpI + MANUAL_2FA_TIMEOUT
  /\ \E u \in AfterCheckpointWait(url), t \in {cpI + CHECKPOINT_POLL, cpI + MANUAL_2FA_TIMEOUT} :
       /\ url' = u
       /\ h' = [h EXCEPT !.cpClearedAt = ClearedAt(u, t)]
  /\ Goto("verdict")
  /\ exc' = "none"
  /\ UNCHANGED <<p, bot, runs, creds, res, sess, rs, sw>>

  /\ UNCHANGED <<eq, api>>
\* how the checkpoint wait ended, given the location at its end
CheckpointEnd(seen, u) ==
  IF ~seen THEN "none"
  ELSE IF IsCheckpoint(u) THEN "still"
  ELSE IF IsMainSite(u) THEN "cleared" ELSE "left"

\* current_url = self.page.url; success: time.sleep(2);
\* self._dismiss_save_login_popup(); else return False
PwLoginVerdict ==
  /\ At("login", "verdict") /\ bot = "playwright"
  /\ IF LoginSucceeded(url)
     THEN /\ h' = [h EXCEPT !.detected = TRUE, !.cpEnd = CheckpointEnd(h.cpSeen, url),
                             !.finalUrl = url, !.cpClearedAt = 0]
          /\ Call(F("save_login", "start"), F("login", "sweep"))
     ELSE /\ h' = [h EXCEPT !.result = "false", !.cpEnd = CheckpointEnd(h.cpSeen, url),
                             !.finalUrl = url, !.cpClearedAt = 0]
          /\ Return
  /\ cpI' = 0
  /\ UNCHANGED <<p, bot, runs, exc, creds, res, sess, url, rs, sw>>

  /\ UNCHANGED <<eq, api>>
\* self._dismiss_popups() after the save-login popup
PwLoginSweep ==
  /\ At("login", "sweep") /\ bot = "playwright"
  /\ Call(F("dismiss_popups", "start"), F("login", "return_true"))
  /\ UNCHANGED <<p, bot, runs, exc, creds, res, sess, url, rs, sw, cpI, h>>

  /\ UNCHANGED <<eq, api>>
\* return True
PwLoginReturnTrue ==
  /\ At("login", "return_true") /\ bot = "playwright"
  /\ h' = [h EXCEPT !.result = "true"]
  /\ Return
  /\ sw' = NoSw
  /\ UNCHANGED <<p, bot, runs, exc, creds, res, sess, url, rs, cpI>>

  /\ UNCHANGED <<eq, api>>
\* the diagnostic line an except clause prints: a fixed text, or the text
\* of the exception, which the driver library wrote
Diagnostic(printsException) ==
  IF ~printsException THEN "fixed"
  ELSE IF h.echo THEN "exception_with_secret" ELSE "exception"

\* variant: a login that starts over once when an attempt failed
PwLoginExcept_Retry ==
  /\ At("login", "except") /\ bot = "playwright"
  /\ IF h.navs < 2
     THEN /\ h' = [h EXCEPT !.diag = Diagnostic(TRUE)]
          /\ Goto("goto")
     ELSE /\ h' = [h EXCEPT !.result = "false", !.diag = Diagnostic(TRUE)]
          /\ Return
  /\ exc' = "none" /\ rs' = NoRs /\ sw' = NoSw
  /\ UNCHANGED <<p, bot, runs, creds, res, sess, url, cpI>>

  /\ UNCHANGED <<eq, api>>
\* except PlaywrightTimeoutError as e: print(f"... 시간 초과: {e}"); return False
\* except Exception as e: print(f"... 오류 발생: {e}"); return False
PwLoginExcept ==
  /\ At("login", "except") /\ bot = "playwright"
  /\ h' = [h EXCEPT !.result = "false", !.diag = Diagnostic(TRUE)]
  /\ Return
  /\ exc' = "none" /\ rs' = NoRs /\ sw' = NoSw
  /\ UNCHANGED <<p, bot, runs, creds, res, sess, url, cpI>>

  /\ UNCHANGED <<eq, api>>
\* ------------------------------------------------ selenium: dismissers
\* _dismiss_popups: for selector in popup_selectors
SeDismissPopups ==
  /\ At("dismiss_popups", "start") /\ bot = "selenium"
  /\ sw' = [SweepStart("popups") EXCEPT !.i = 1]
  /\ Goto("loop")
  /\ UNCHANGED <<bot, runs, exc, creds, res, sess, url, rs, cpI>>
  /\ h' = SweepLogged
  /\ p' = PostSwept

  /\ UNCHANGED <<eq, api>>
\* one iteration: WebDriverWait(driver, 2).until(presence) and a JavaScript
\* click; TimeoutException and every other Exception are swallowed, and the
\* loop goes on to the next selector also after a click
SeDismissPopupsStep ==
  /\ At("dismiss_popups", "loop") /\ bot = "selenium"
  /\ \E o \in {"timeout", "clicked", "click_raised"} :
       sw' = [sw EXCEPT !.i = @ + 1,
                        !.found = @ \/ o # "timeout",
                        !.clicked = @ \/ o # "timeout",
                        !.tried = @ + 1,
                        !.dismissed = @ \/ o = "clicked"]
  /\ IF sw.i < Len(SE_POPUP_SELECTORS) THEN UNCHANGED stack ELSE Goto("return")
  /\ UNCHANGED <<p, bot, runs, exc, creds, res, sess, url, rs, cpI, h>>

  /\ UNCHANGED <<eq, api>>
ScanOutcomes == {"no_label", "clicked", "click_raised", "scan_raised"}

\* _dismiss_save_login_popup, first tier: the texts of all div[role=button]
\* against the dismissal labels; the first click that works returns
SeDismissSaveLogin ==
  /\ At("save_login", "start") /\ bot = "selenium"
  /\ \E scan \in ScanOutcomes :
       /\ sw' = [SweepStart("save_login") EXCEPT
                   !.fallback = scan,
                   !.found = scan \in {"clicked", "click_raised"},
                   !.clicked = scan \in {"clicked", "click_raised"},
                   !.dismissed = scan = "clicked",
                   !.scanClicks = IF scan = "clicked" THEN 1 ELSE 0]
       /\ IF scan = "clicked" THEN Goto("return") ELSE Goto("spans")
  /\ UNCHANGED <<p, bot, runs, exc, creds, res, sess, url, rs, cpI>>
  /\ h' = SweepLogged

  /\ UNCHANGED <<eq, api>>
\* second tier: spans with a dismissal text, click the ancestor button
SeSaveLoginSpans ==
  /\ At("save_login", "spans") /\ bot = "selenium"
  /\ \E scan \in ScanOutcomes :
       /\ sw' = [sw EXCEPT !.i = 1,
                           !.found = @ \/ scan \in {"clicked", "click_raised"},
                           !.clicked = @ \/ scan \in {"clicked", "click_raised"},
                           !.dismissed = @ \/ scan = "clicked",
                           !.scanClicks = IF scan = "clicked" THEN @ + 1 ELSE @]
       /\ IF scan = "clicked" THEN Goto("return") ELSE Goto("selectors")
  /\ UNCHANGED <<p, bot, runs, exc, creds, res, sess, url, rs, cpI, h>>

  /\ UNCHANGED <<eq, api>>
\* third tier: for selector in save_login_selectors: WebDriverWait(driver, 1),
\* JavaScript click, return; bare except: continue
SeSaveLoginSelectorStep ==
  /\ At("save_login", "selectors") /\ bot = "selenium"
  /\ \E o \in {"timeout", "clicked", "click_raised"} :
       /\ sw' = [sw EXCEPT !.i = @ + 1,
                           !.found = @ \/ o # "timeout",
                           !.clicked = @ \/ o # "timeout",
                           !.tried = @ + 1,
                           !.dismissed = @ \/ o = "clicked"]
       /\ IF o = "clicked" \/ sw.i >= Len(SE_SAVE_LOGIN_SELECTORS)
          THEN Goto("return") ELSE UNCHANGED stack
  /\ UNCHANGED <<p, bot, runs, exc, creds, res, sess, url, rs, cpI, h>>

  /\ UNCHANGED <<eq, api>>
\* ---------------------------------------------------- selenium: login
\* driver.get(FACEBOOK_LOGIN_URL); time.sleep(2); self._dismiss_popups()
SeLoginGoto ==
  /\ At("login", "goto") /\ bot = "selenium"
  /\ \/ /\ url' = FACEBOOK_LOGIN_URL
        /\ h' = [h EXCEPT !.navs = @ + 1]
        /\ Call(F("dismiss_popups", "start"), F("login", "email"))
        /\ UNCHANGED <<exc, sw>>
     \/ /\ \E e \in ExceptionClasses : Raise(e, h, sw)
        /\ UNCHANGED url
  /\ UNCHANGED <<p, bot, runs, creds, res, sess, rs, cpI>>

  /\ UNCHANGED <<eq, api>>
\* email_input = self.wait.until(presence_of_element_located(email_input));
\* clear(); send_keys(email)
SeLoginEmail ==
  /\ At("login", "email") /\ bot = "selenium"
  /\ \/ /\ Raise("Timeout", [h EXCEPT !.emailRes = "timeout"], sw)
     \/ /\ Raise("Error", [h EXCEPT !.emailRes = "found"], sw)      \* clear / send_keys raises
     \/ /\ h' = [h EXCEPT !.emailRes = "found", !.emailFilled = TRUE]
        /\ Goto("password")
        /\ sw' = NoSw
        /\ UNCHANGED exc
  /\ UNCHANGED <<p, bot, runs, creds, res, sess, url, rs, cpI>>

  /\ UNCHANGED <<eq, api>>
\* password_input = driver.find_element(password_input); clear(); send_keys
SeLoginPassword ==
  /\ At("login", "password") /\ bot = "selenium"
  /\ \/ /\ Raise("Error", h, sw)                                    \* NoSuchElementException
     \/ /\ \E q \in BOOLEAN :                    \* clear / send_keys(self.password) raises;
             Raise("Error", [h EXCEPT !.passAttempted = TRUE, !.echo = q], sw)   \* q: the message quotes the call
     \/ /\ h' = [h EXCEPT !.passAttempted = TRUE, !.passFilled = TRUE]
        /\ Goto("submit")
        /\ UNCHANGED <<exc, sw>>
  /\ UNCHANGED <<p, bot, runs, creds, res, sess, url, rs, cpI>>

  /\ UNCHANGED <<eq, api>>
\* login_button = driver.find_element(login_button); click(); time.sleep(5)
SeLoginSubmit ==
  /\ At("login", "submit") /\ bot = "selenium"
  /\ \/ /\ Raise("Error", h, sw)                                    \* NoSuchElementException
        /\ UNCHANGED url
     \/ /\ Raise("Error", [h EXCEPT !.submits = @ + 1], sw)         \* click raises
        /\ UNCHANGED url
     \/ /\ \E u \in PostSubmitUrls : url' = u
        /\ h' = [h EXCEPT !.submits = @ + 1]
        /\ Goto("cp_check")
        /\ UNCHANGED <<exc, sw>>
  /\ UNCHANGED <<p, bot, runs, creds, res, sess, rs, cpI>>

  /\ UNCHANGED <<eq, api>>
\* if "checkpoint" in self.driver.current_url: time.sleep(30)
SeLoginCheckpoint ==
  /\ At("login", "cp_check") /\ bot = "selenium"
  /\ IF IsCheckpoint(url)
     THEN /\ cpI' = SE_CHECKPOINT_SLEEP
          /\ \E u \in AfterCheckpointWait(url), t \in {CHECKPOINT_POLL, SE_CHECKPOINT_SLEEP} :
               /\ url' = u
               /\ h' = [h EXCEPT !.cpSeen = TRUE, !.cpClearedAt = ClearedAt(u, t)]
     ELSE /\ h' = h
          /\ cpI' = 0
          /\ url' = url
  /\ Goto("verdict")
  /\ UNCHANGED <<p, bot, runs, exc, creds, res, sess, rs, sw>>

  /\ UNCHANGED <<eq, api>>
\* if "facebook.com" in current_url and "login" not in current_url: time.sleep(2);
\* self._dismiss_save_login_popup(); else return False
SeLoginVerdict ==
  /\ At("login", "verdict") /\ bot = "selenium"
  /\ IF LoginSucceeded(url)
     THEN /\ h' = [h EXCEPT !.detected = TRUE, !.cpEnd = CheckpointEnd(h.cpSeen, url),
                             !.finalUrl = url, !.cpClearedAt = 0]
          /\ Call(F("save_login", "start"), F("login", "sweep"))
     ELSE /\ h' = [h EXCEPT !.result = "false", !.cpEnd = CheckpointEnd(h.cpSeen, url),
                             !.finalUrl = url, !.cpClearedAt = 0]
          /\ Return
  /\ cpI' = 0
  /\ UNCHANGED <<p, bot, runs, exc, creds, res, sess, url, rs, sw>>

  /\ UNCHANGED <<eq, api>>
\* self._dismiss_popups() after the save-login popup
SeLoginSweep ==
  /\ At("login", "sweep") /\ bot = "selenium"
  /\ Call(F("dismiss_popups", "start"), F("login", "return_true"))
  /\ UNCHANGED <<p, bot, runs, exc, creds, res, sess, url, rs, sw, cpI, h>>

  /\ UNCHANGED <<eq, api>>
\* return True
SeLoginReturnTrue ==
  /\ At("login", "return_true") /\ bot = "selenium"
  /\ h' = [h EXCEPT !.result = "true"]
  /\ Return
  /\ sw' = NoSw
  /\ UNCHANGED <<p, bot, runs, exc, creds, res, sess, url, rs, cpI>>

  /\ UNCHANGED <<eq, api>>
\* except TimeoutException: print("... 로딩 시간 초과"); return False
\* except Exception as e: print(f"... 오류 발생: {e}"); return False
SeLoginExcept ==
  /\ At("login", "except") /\ bot = "selenium"
  /\ h' = [h EXCEPT !.result = "false", !.diag = Diagnostic(exc # "Timeout")]
  /\ Return
  /\ exc' = "none" /\ rs' = NoRs /\ sw' = NoSw
  /\ UNCHANGED <<p, bot, runs, creds, res, sess, url, cpI>>

  /\ UNCHANGED <<eq, api>>
\* --------------------------------------- selenium: the retry resolvers
\* self._find_element_with_retry / _click_element_with_retry(selectors),
\* timeout = timeout or Config.DEFAULT_WAIT_TIME, resuming at cont
SeResolverCall(fn, selectors, cont) ==
  /\ Call(F(fn, "loop"), cont)
  /\ rs' = [fn |-> fn, key |-> selectors[1], n |-> Len(selectors), i |-> 1,
            timeout |-> DEFAULT_WAIT_TIME, elapsed |-> 0, firstMatch |-> 0,
            lastEval |-> 0, clicked |-> 0, result |-> "none", nav |-> 0]

\* one iteration of _click_element_with_retry: wait.until(element_to_be_clickable),
\* element.click(), return True; TimeoutException and
\* ElementClickInterceptedException: continue; return False after the loop
ClickRetryStep ==
  /\ At("click_retry", "loop")
  /\ \/ \* the wait times out
        /\ rs' = NextCandidate(Evaluated(FALSE, rs.timeout))
        /\ IF rs.i < rs.n THEN UNCHANGED stack ELSE Return
        /\ UNCHANGED <<exc, sw, h>>
     \/ \* clickable and clicked
        /\ \E d \in MatchDelays(rs.timeout) :
             rs' = [Evaluated(TRUE, d) EXCEPT !.clicked = rs.i, !.result = "true"]
        /\ Return
        /\ UNCHANGED <<exc, sw, h>>
     \/ \* clickable, but the click is intercepted by another element
        /\ \E d \in MatchDelays(rs.timeout) :
             rs' = NextCandidate(Evaluated(TRUE, d))
        /\ IF rs.i < rs.n THEN UNCHANGED stack ELSE Return
        /\ UNCHANGED <<exc, sw, h>>
     \/ \* clickable, the click raises another WebDriverException
        /\ \E d \in MatchDelays(rs.timeout) :
             rs' = [Evaluated(TRUE, d) EXCEPT !.result = "raised"]
        /\ Raise("Error", h, sw)
  /\ UNCHANGED <<p, bot, runs, creds, res, sess, url, cpI>>

  /\ UNCHANGED <<eq, api>>
\* variant: _find_element_with_retry hands out the element it found before
\* the latest navigation
FindRetryStep_Cached ==
  /\ At("find_retry", "loop")
  /\ \/ /\ IF rs.i < rs.n
           THEN /\ rs' = NextCandidate(Evaluated(FALSE, rs.timeout))
                /\ UNCHANGED <<stack, exc, sw, h>>
           ELSE /\ rs' = [Evaluated(FALSE, rs.timeout) EXCEPT !.result = "raised"]
                /\ Raise("Timeout", h, sw)
     \/ /\ \E d \in MatchDelays(rs.timeout) :
             rs' = [Evaluated(TRUE, d) EXCEPT !.result = "true", !.nav = Navigations - 1]
        /\ Return
        /\ UNCHANGED <<exc, sw, h>>
  /\ UNCHANGED <<p, bot, runs, creds, res, sess, url, cpI>>

  /\ UNCHANGED <<eq, api>>
\* one iteration of _find_element_with_retry: wait.until(presence_of_element_located),
\* return element; TimeoutException: continue; raise TimeoutException after the loop
FindRetryStep ==
  /\ At("find_retry", "loop")
  /\ \/ \* the wait times out
        /\ IF rs.i < rs.n
           THEN /\ rs' = NextCandidate(Evaluated(FALSE, rs.timeout))
                /\ UNCHANGED <<stack, exc, sw, h>>
           ELSE /\ rs' = [Evaluated(FALSE, rs.timeout) EXCEPT !.result = "raised"]
                /\ Raise("Timeout", h, sw)
     \/ \* present: returned
        /\ \E d \in MatchDelays(rs.timeout) :
             rs' = [Evaluated(TRUE, d) EXCEPT !.result = "true"]
        /\ Return
        /\ UNCHANGED <<exc, sw, h>>
  /\ UNCHANGED <<p, bot, runs, creds, res, sess, url, cpI>>

  /\ UNCHANGED <<eq, api>>
\* ------------------------------------------------------- create_post
\* the extensions post_image and post_video of the API client accept; the
\* browser bots have no such list
image_formats == {"jpg", "jpeg", "png", "gif", "bmp", "webp"}
supported_formats == {"mp4", "mov", "avi", "wmv", "flv", "mkv", "webm"}

\* an attachment path: does the file exist, and its extension
Attachments == [exists : BOOLEAN, ext : {"jpg", "mp4", "txt"}]

\* variant: bot.login(...); bot.create_post(...) with the result of login unused
AfterLogin_Always ==
  /\ At("run", "after_login")
  /\ \E n \in 0..MaxMedia : p' = [NoP EXCEPT !.nmedia = n]
  /\ Call(F("create_post", "goto"), F("run", "after_post"))
  /\ UNCHANGED <<bot, runs, exc, creds, res, sess, url, rs, sw, cpI, h>>

  /\ UNCHANGED <<eq, api>>
\* if bot.login(...): bot.create_post(message, media_paths) else: print
AfterLogin ==
  /\ At("run", "after_login")
  /\ IF h.result = "true"
     THEN /\ \E n \in 0..MaxMedia : p' = [NoP EXCEPT !.nmedia = n]
          /\ Call(F("create_post", "goto"), F("run", "after_post"))
     ELSE /\ p' = p
          /\ Goto("exit")
  /\ UNCHANGED <<bot, runs, exc, creds, res, sess, url, rs, sw, cpI, h>>

  /\ UNCHANGED <<eq, api>>
\* the with body ends after create_post
AfterPost ==
  /\ At("run", "after_post")
  /\ Goto("exit")
  /\ UNCHANGED <<p, bot, runs, exc, creds, res, sess, url, rs, sw, cpI, h>>

  /\ UNCHANGED <<eq, api>>
\* variant: a create_post that goes from the navigation straight to the composer
PwPostGoto_NoSweep ==
  /\ At("create_post", "goto") /\ bot = "playwright"
  /\ \/ /\ url' = FACEBOOK_HOME_URL
        /\ p' = [p EXCEPT !.navs = @ + 1, !.steps = Append(@, "navigate")]
        /\ Goto("composer")
        /\ UNCHANGED <<exc, sw, h>>
     \/ /\ \E e \in ExceptionClasses : Raise(e, h, sw)
        /\ UNCHANGED <<url, p>>
  /\ UNCHANGED <<bot, runs, creds, res, sess, rs, cpI>>

  /\ UNCHANGED <<eq, api>>
\* page.goto(FACEBOOK_HOME_URL); wait_for_load_state; time.sleep(2);
\* self._dismiss_popups()
PwPostGoto ==
  /\ At("create_post", "goto") /\ bot = "playwright"
  /\ \/ /\ url' = FACEBOOK_HOME_URL
        /\ p' = [p EXCEPT !.navs = @ + 1, !.steps = Append(@, "navigate")]
        /\ Call(F("dismiss_popups", "start"), F("create_post", "composer"))
        /\ UNCHANGED <<exc, sw, h>>
     \/ /\ \E e \in ExceptionClasses : Raise(e, h, sw)
        /\ UNCHANGED <<url, p>>
  /\ UNCHANGED <<bot, runs, creds, res, sess, rs, cpI>>

  /\ UNCHANGED <<eq, api>>
\* self._try_click(self.SELECTORS["whats_on_your_mind"], timeout=10000)
PwPostComposer ==
  /\ At("create_post", "composer") /\ bot = "playwright"
  /\ TryClickCall("whats_on_your_mind", PW_COMPOSER_TIMEOUT_MS, F("create_post", "composer_done"))
  /\ sw' = NoSw
  /\ UNCHANGED <<p, bot, runs, exc, creds, res, sess, url, cpI, h>>

  /\ UNCHANGED <<eq, api>>
\* what a click resolver's call came to: a candidate was clicked, no
\* candidate resolved, or candidates resolved and none could be clicked
ClickOutcome(r) ==
  IF r.result = "true" THEN "clicked" ELSE IF r.firstMatch = 0 THEN "absent" ELSE "blocked"

\* variant: a create_post that does not test the result of the composer click
PostAfterComposer_GoesOn ==
  /\ At("create_post", "composer_done")
  /\ p' = [p EXCEPT !.composer = (rs.result = "true"), !.composerRes = ClickOutcome(rs),
                    !.upload = IF p.nmedia > 0 THEN "called" ELSE @,
                    !.steps = Append(@, "composer")]
  /\ IF p.nmedia > 0
     THEN Call(F("upload", "start"), F("create_post", "text"))
     ELSE Goto("text")
  /\ rs' = NoRs
  /\ UNCHANGED <<bot, runs, exc, creds, res, sess, url, sw, cpI, h>>

  /\ UNCHANGED <<eq, api>>
\* if not clicked: print("... 입력창을 찾을 수 없습니다."); return False;
\* time.sleep(2); if image_paths: _upload_images
PostAfterComposer ==
  /\ At("create_post", "composer_done")
  /\ IF rs.result # "true"
     THEN /\ p' = [p EXCEPT !.result = "false", !.composerRes = ClickOutcome(rs),
                             !.msg = "composer_not_found", !.cause = "composer"]
          /\ Return
     ELSE /\ p' = [p EXCEPT !.composer = TRUE, !.composerRes = "clicked",
                             !.upload = IF p.nmedia > 0 THEN "called" ELSE @,
                             !.steps = Append(@, "composer")]
          /\ IF p.nmedia > 0
             THEN Call(F("upload", "start"), F("create_post", "text"))
             ELSE Goto("text")
  /\ rs' = NoRs
  /\ UNCHANGED <<bot, runs, exc, creds, res, sess, url, sw, cpI, h>>

  /\ UNCHANGED <<eq, api>>
\* _upload_images: self._try_click(photo_video_button, timeout=5000)
PwUpload ==
  /\ At("upload", "start") /\ bot = "playwright"
  /\ TryClickCall("photo_video_button", PW_UPLOAD_TIMEOUT_MS, F("upload", "file_input"))
  /\ p' = [p EXCEPT !.steps = Append(@, "attach")]
  /\ UNCHANGED <<bot, runs, exc, creds, res, sess, url, sw, cpI, h>>

  /\ UNCHANGED <<eq, api>>
\* if not clicked: return False; time.sleep(1);
\* file_input = wait_for_selector("input[type='file'][accept*='image']", 5000)
PwUploadFileInput ==
  /\ At("upload", "file_input") /\ bot = "playwright"
  /\ IF rs.result # "true"
     THEN /\ p' = [p EXCEPT !.upload = "no_picker"]
          /\ Return
          /\ UNCHANGED <<exc, sw, h>>
     ELSE \/ /\ Raise("Timeout", h, sw)
             /\ p' = p
          \/ /\ p' = [p EXCEPT !.k = 1, !.inputNav = Navigations]
             /\ Goto("feed")
             /\ UNCHANGED <<exc, sw, h>>
  /\ rs' = NoRs
  /\ UNCHANGED <<bot, runs, creds, res, sess, url, cpI>>

  /\ UNCHANGED <<eq, api>>
\* variant: the loop over the paths ends at the first path that does not
\* exist (break where the code has continue)
PwUploadFeed_StopAtMissing ==
  /\ At("upload", "feed") /\ bot = "playwright"
  /\ IF p.k > p.nmedia
     THEN /\ p' = [p EXCEPT !.upload = "true"]
          /\ Return
          /\ UNCHANGED <<exc, sw, h>>
     ELSE \E a \in Attachments :
            IF ~a.exists
            THEN /\ p' = [p EXCEPT !.media = Append(@, a), !.upload = "true"]
                 /\ Return
                 /\ UNCHANGED <<exc, sw, h>>
            ELSE \/ /\ p' = [p EXCEPT !.k = @ + 1, !.media = Append(@, a),
                                       !.fed = Append(@, p.k),
                                       !.stale = @ \/ p.inputNav # Navigations]
                    /\ UNCHANGED <<stack, exc, sw, h>>
                 \/ /\ Raise("Error", h, sw)
                    /\ p' = p
  /\ UNCHANGED <<bot, runs, creds, res, sess, url, rs, cpI>>

  /\ UNCHANGED <<eq, api>>
\* one iteration of for image_path in image_paths: skip a path that does
\* not exist, else file_input.set_input_files(abs_path); return True at the end
PwUploadFeed ==
  /\ At("upload", "feed") /\ bot = "playwright"
  /\ IF p.k > p.nmedia
     THEN /\ p' = [p EXCEPT !.upload = "true"]
          /\ Return
          /\ UNCHANGED <<exc, sw, h>>
     ELSE \E a \in Attachments :           \* the k-th path of the list
            IF ~a.exists
            THEN /\ p' = [p EXCEPT !.k = @ + 1, !.media = Append(@, a)]
                 /\ UNCHANGED <<stack, exc, sw, h>>
            ELSE \/ /\ p' = [p EXCEPT !.k = @ + 1, !.media = Append(@, a),
                                       !.fed = Append(@, p.k),
                                       !.stale = @ \/ p.inputNav # Navigations]
                    /\ UNCHANGED <<stack, exc, sw, h>>
                 \/ /\ Raise("Error", h, sw)         \* the feed raises
                    /\ p' = p
  /\ UNCHANGED <<bot, runs, creds, res, sess, url, rs, cpI>>

  /\ UNCHANGED <<eq, api>>
\* _upload_images / _upload_media: except Exception: return False
UploadExcept ==
  /\ At("upload", "except")
  /\ p' = [p EXCEPT !.upload = "raised"]
  /\ Return
  /\ exc' = "none" /\ rs' = NoRs /\ sw' = NoSw
  /\ UNCHANGED <<bot, runs, creds, res, sess, url, cpI, h>>

  /\ UNCHANGED <<eq, api>>
\* variant: a create_post that returns False when the upload did not succeed
PwPostText_ChecksUpload ==
  /\ At("create_post", "text") /\ bot = "playwright"
  /\ IF p.upload \in {"no_picker", "no_input", "raised"}
     THEN /\ p' = [p EXCEPT !.result = "false", !.msg = "error", !.cause = "upload"]
          /\ Return
          /\ UNCHANGED <<exc, sw, h, rs>>
     ELSE \/ /\ Raise("Timeout", h, sw)
             /\ UNCHANGED <<p, rs>>
          \/ /\ Raise("Error", h, sw)
             /\ UNCHANGED <<p, rs>>
          \/ /\ p' = [p EXCEPT !.text = TRUE, !.steps = Append(@, "text")]
             /\ TryClickCall("post_button", PW_COMPOSER_TIMEOUT_MS, F("create_post", "submit_done"))
             /\ UNCHANGED <<exc, sw, h>>
  /\ UNCHANGED <<bot, runs, creds, res, sess, url, cpI>>
  /\ UNCHANGED <<eq, api>>

\* text_input = wait_for_selector(post_textbox, 10000); click(); type(message);
\* time.sleep(2); self._try_click(post_button, timeout=10000)
PwPostText ==
  /\ At("create_post", "text") /\ bot = "playwright"
  /\ \/ /\ Raise("Timeout", h, sw)                  \* the text box never appears
        /\ UNCHANGED <<p, rs>>
     \/ /\ Raise("Error", h, sw)                    \* click or type raises
        /\ UNCHANGED <<p, rs>>
     \/ /\ p' = [p EXCEPT !.text = TRUE, !.steps = Append(@, "text")]
        /\ TryClickCall("post_button", PW_COMPOSER_TIMEOUT_MS, F("create_post", "submit_done"))
        /\ UNCHANGED <<exc, sw, h>>
  /\ UNCHANGED <<bot, runs, creds, res, sess, url, cpI>>

  /\ UNCHANGED <<eq, api>>
\* variant: a create_post that empties the composer again when the post
\* button was not clicked
PostAfterSubmit_Rollback ==
  /\ At("create_post", "submit_done")
  /\ p' = [p EXCEPT !.submit = (rs.result = "true"),
                    !.submitRes = ClickOutcome(rs),
                    !.steps = IF rs.result = "true" THEN Append(@, "submit") ELSE @,
                    !.text = (rs.result = "true"),
                    !.result = IF rs.result = "true" THEN "true" ELSE "false",
                    !.msg = IF rs.result = "true" THEN "posted" ELSE "submit_not_found",
                    !.cause = IF rs.result = "true" THEN @ ELSE "submit"]
  /\ Return
  /\ rs' = NoRs
  /\ UNCHANGED <<bot, runs, exc, creds, res, sess, url, sw, cpI, h>>

  /\ UNCHANGED <<eq, api>>
\* if clicked: print("... 업로드되었습니다!"); time.sleep(3); return True
\* else: print("... 게시 버튼을 찾을 수 없습니다."); return False
PostAfterSubmit ==
  /\ At("create_post", "submit_done")
  /\ p' = [p EXCEPT !.submit = (rs.result = "true"),
                    !.submitRes = ClickOutcome(rs),
                    !.steps = IF rs.result = "true" THEN Append(@, "submit") ELSE @,
                    !.result = IF rs.result = "true" THEN "true" ELSE "false",
                    !.msg = IF rs.result = "true" THEN "posted" ELSE "submit_not_found",
                    !.cause = IF rs.result = "true" THEN @ ELSE "submit"]
  /\ Return
  /\ rs' = NoRs
  /\ UNCHANGED <<bot, runs, exc, creds, res, sess, url, sw, cpI, h>>

  /\ UNCHANGED <<eq, api>>
\* the step of create_post an exception came from
FailedStep ==
  IF sw.raised THEN "dismisser"
  ELSE IF p.navs = 0 THEN "navigation"
  ELSE IF ~p.composer THEN "composer"
  ELSE IF ~p.text THEN "text" ELSE "submit"

\* create_post: except (Playwright)TimeoutError: print("... 시간 초과"); return False
\* except Exception: print("... 게시물 작성 중 오류"); return False
PostExcept ==
  /\ At("create_post", "except")
  /\ p' = [p EXCEPT !.result = "false",
                    !.msg = IF exc = "Timeout" THEN "timeout" ELSE "error",
                    !.cause = FailedStep]
  /\ Return
  /\ exc' = "none" /\ rs' = NoRs /\ sw' = NoSw
  /\ UNCHANGED <<bot, runs, creds, res, sess, url, cpI, h>>

  /\ UNCHANGED <<eq, api>>
\* driver.get(FACEBOOK_HOME_URL); time.sleep(3); self._dismiss_popups()
SePostGoto ==
  /\ At("create_post", "goto") /\ bot = "selenium"
  /\ \/ /\ url' = FACEBOOK_HOME_URL
        /\ p' = [p EXCEPT !.navs = @ + 1, !.steps = Append(@, "navigate")]
        /\ Call(F("dismiss_popups", "start"), F("create_post", "composer"))
        /\ UNCHANGED <<exc, sw, h>>
     \/ /\ \E e \in ExceptionClasses : Raise(e, h, sw)
        /\ UNCHANGED <<url, p>>
  /\ UNCHANGED <<bot, runs, creds, res, sess, rs, cpI>>

  /\ UNCHANGED <<eq, api>>
\* self._click_element_with_retry([whats_on_your_mind, whats_on_your_mind_en])
SePostComposer ==
  /\ At("create_post", "composer") /\ bot = "selenium"
  /\ SeResolverCall("click_retry", SE_COMPOSER_SELECTORS, F("create_post", "composer_done"))
  /\ sw' = NoSw
  /\ UNCHANGED <<p, bot, runs, exc, creds, res, sess, url, cpI, h>>

  /\ UNCHANGED <<eq, api>>
\* _upload_media: self._click_element_with_retry([photo_video_button, ..._en])
SeUpload ==
  /\ At("upload", "start") /\ bot = "selenium"
  /\ SeResolverCall("click_retry", SE_PHOTO_SELECTORS, F("upload", "file_input"))
  /\ p' = [p EXCEPT !.steps = Append(@, "attach")]
  /\ UNCHANGED <<bot, runs, exc, creds, res, sess, url, sw, cpI, h>>

  /\ UNCHANGED <<eq, api>>
\* time.sleep(2); file_inputs = driver.find_elements(file_input);
\* if not file_inputs: return False
SeUploadFileInput ==
  /\ At("upload", "file_input") /\ bot = "selenium"
  /\ \/ /\ p' = [p EXCEPT !.upload = "no_input"]
        /\ Return
        /\ UNCHANGED <<exc, sw, h>>
     \/ /\ Raise("Error", h, sw)
        /\ p' = p
     \/ /\ p' = [p EXCEPT !.k = 1, !.inputNav = Navigations]
        /\ Goto("feed")
        /\ UNCHANGED <<exc, sw, h>>
  /\ rs' = NoRs
  /\ UNCHANGED <<bot, runs, creds, res, sess, url, cpI>>

  /\ UNCHANGED <<eq, api>>
\* one iteration of for media_path in media_paths: skip a path that does
\* not exist, else file_inputs[0].send_keys(abs_path); return True at the end
SeUploadFeed ==
  /\ At("upload", "feed") /\ bot = "selenium"
  /\ IF p.k > p.nmedia
     THEN /\ p' = [p EXCEPT !.upload = "true"]
          /\ Return
          /\ UNCHANGED <<exc, sw, h>>
     ELSE \E a \in Attachments :           \* the k-th path of the list
            IF ~a.exists
            THEN /\ p' = [p EXCEPT !.k = @ + 1, !.media = Append(@, a)]
                 /\ UNCHANGED <<stack, exc, sw, h>>
            ELSE \/ /\ p' = [p EXCEPT !.k = @ + 1, !.media = Append(@, a),
                                       !.fed = Append(@, p.k),
                                       !.stale = @ \/ p.inputNav # Navigations]
                    /\ UNCHANGED <<stack, exc, sw, h>>
                 \/ /\ Raise("Error", h, sw)         \* the feed raises
                    /\ p' = p
  /\ UNCHANGED <<bot, runs, creds, res, sess, url, rs, cpI>>

  /\ UNCHANGED <<eq, api>>
\* text_input = self._find_element_with_retry([post_box])
SePostFindText ==
  /\ At("create_post", "text") /\ bot = "selenium"
  /\ SeResolverCall("find_retry", SE_POST_BOX_SELECTORS, F("create_post", "type"))
  /\ UNCHANGED <<p, bot, runs, exc, creds, res, sess, url, sw, cpI, h>>

  /\ UNCHANGED <<eq, api>>
\* text_input.click(); time.sleep(1); send_keys(message); time.sleep(2);
\* self._click_element_with_retry([post_button, post_button_en])
SePostText ==
  /\ At("create_post", "type") /\ bot = "selenium"
  /\ \/ /\ Raise("Error", h, sw)                    \* click or send_keys raises
        /\ UNCHANGED <<p, rs>>
     \/ /\ p' = [p EXCEPT !.text = TRUE, !.stale = @ \/ rs.nav # Navigations,
                            !.steps = Append(@, "text")]
        /\ SeResolverCall("click_retry", SE_POST_BUTTON_SELECTORS, F("create_post", "submit_done"))
        /\ UNCHANGED <<exc, sw, h>>
  /\ UNCHANGED <<bot, runs, creds, res, sess, url, cpI>>

  /\ UNCHANGED <<eq, api>>
\* ------------------------------------------------------ specification
Next ==
  \/ StartRun \/ Construct \/ PwStartBrowser \/ SeStartBrowser
  \/ WithExit \/ WithExitOnRaise \/ RunExcept \/ RunReturn
  \/ CallLogin \/ AfterLogin \/ AfterPost \/ Interrupt
  \/ TryClickStep \/ ClickRetryStep \/ FindRetryStep
  \/ PwDismissPopups \/ PwDismissPopupsNotNow \/ SweepReturn
  \/ PwDismissSaveLogin \/ PwSaveLoginFallback
  \/ SeDismissPopups \/ SeDismissPopupsStep
  \/ SeDismissSaveLogin \/ SeSaveLoginSpans \/ SeSaveLoginSelectorStep
  \/ PwLoginGoto \/ PwLoginEmail \/ PwLoginPassword \/ PwLoginSubmit
  \/ PwLoginCheckpointCheck \/ PwCheckpointPoll \/ PwCheckpointExcept
  \/ PwLoginVerdict \/ PwLoginSweep \/ PwLoginReturnTrue \/ PwLoginExcept
  \/ SeLoginGoto \/ SeLoginEmail \/ SeLoginPassword \/ SeLoginSubmit
  \/ SeLoginCheckpoint
  \/ SeLoginVerdict \/ SeLoginSweep \/ SeLoginReturnTrue \/ SeLoginExcept
  \/ PwPostGoto \/ PwPostComposer \/ PostAfterComposer
  \/ PwUpload \/ PwUploadFileInput \/ PwUploadFeed \/ UploadExcept
  \/ PwPostText \/ PostAfterSubmit \/ PostExcept
  \/ SePostGoto \/ SePostComposer \/ SeUpload \/ SeUploadFileInput \/ SeUploadFeed
  \/ SePostFindText \/ SePostText

Spec == Init /\ [][Next]_vars

\* The menu before the last posting of the session: nothing of an earlier
\* posting is left, StartRun builds the bot and its browser anew.
LiveInit ==
  /\ bot = "none"
  /\ runs = MaxRuns - 1
  /\ stack = <<F("main", "menu")>>
  /\ exc = "none"
  /\ creds = [email |-> "", password |-> ""]
  /\ res = NoRes
  /\ sess = NoSess
  /\ url = BlankUrl
  /\ rs = NoRs
  /\ sw = NoSw
  /\ cpI = 0
  /\ h = NoH
  /\ p = NoP
  /\ eq = NoEq
  /\ api = NoApi

\* The interpreter runs one thread and every driver call and every sleep
\* returns or raises, so a step that can be taken is eventually taken.
LiveSpec == LiveInit /\ [][Next]_vars /\ WF_vars(Next)

\* ------------------------------------------- the two bots side by side
\* login and create_post of each bot as functions of what the page does.
\* A delay is the number of seconds an element takes to appear after the bot
\* starts to look for it; NeverAppears is longer than every timeout.
NeverAppears == 1000
Delays == 0..MaxDelay \cup {NeverAppears}

\* the interstitial on the page: none, one that a click closes, one whose
\* close button is found and whose click raises a driver error
Popups == {"none", "closes", "click_error"}

Range(q) == {q[i] : i \in 1..Len(q)}

\* the Playwright pattern that tests what a Selenium XPath tests
SE_AS_PATTERN ==
  [ whats_on_your_mind    |-> "span_mind_ko",
    whats_on_your_mind_en |-> "span_mind_en",
    post_button           |-> "div_post_ko",
    post_button_en        |-> "div_post_en" ]
SePatterns(selectors) == {SE_AS_PATTERN[selectors[i]] : i \in 1..Len(selectors)}

\* what a login page does: its interstitial, the delays of the three form
\* elements, where the click on the login button leads, and where a
\* checkpoint page is when the 2FA wait is over (CheckpointUrl: still there)
LoginPages ==
  [ popup : Popups, email : Delays, pass : Delays, button : Delays,
    landing : PostSubmitUrls, cpExit : CheckpointExitUrls \cup {CheckpointUrl} ]

\* the location the success test of login reads
LocationAtVerdict(b) ==
  IF IsCheckpoint(b.landing) /\ ~IsCheckpoint(b.cpExit) THEN b.cpExit ELSE b.landing

\* FacebookPlaywrightBot.login: a driver error in _dismiss_popups reaches
\* except Exception; the email field is waited for 10 s, the password field
\* and the login button for the driver's default timeout
PwLoginOutcome(b) ==
  IF b.popup = "click_error" THEN "false"
  ELSE IF b.email > MsToSec(PW_EMAIL_TIMEOUT_MS) THEN "false"
  ELSE IF b.pass = NeverAppears \/ b.button = NeverAppears THEN "false"
  ELSE IF LoginSucceeded(LocationAtVerdict(b)) THEN "true" ELSE "false"

\* FacebookSeleniumBot.login: _dismiss_popups swallows every exception; the
\* email field is waited for DEFAULT_WAIT_TIME, the password field and the
\* login button are looked up once with driver.find_element
SeLoginOutcome(b) ==
  IF b.email > DEFAULT_WAIT_TIME THEN "false"
  ELSE IF b.pass > 0 \/ b.button > 0 THEN "false"
  ELSE IF LoginSucceeded(LocationAtVerdict(b)) THEN "true" ELSE "false"

\* what the home page does for a create_post without attachments: its
\* interstitial, the one pattern the composer affordance and the post button
\* match ("none": not on the page), the delay of the text box
PostPages ==
  [ popup : Popups,
    composer : Range(PW_SELECTORS.whats_on_your_mind) \cup {"none"},
    textbox : Delays,
    button : Range(PW_SELECTORS.post_button) \cup {"none"} ]

\* FacebookPlaywrightBot.create_post
PwPostOutcome(b) ==
  IF b.popup = "click_error" THEN "false"
  ELSE IF b.composer \notin Range(PW_SELECTORS.whats_on_your_mind) THEN "false"
  ELSE IF b.textbox > MsToSec(PW_COMPOSER_TIMEOUT_MS) THEN "false"
  ELSE IF b.button \notin Range(PW_SELECTORS.post_button) THEN "false" ELSE "true"

\* FacebookSeleniumBot.create_post
SePostOutcome(b) ==
  IF b.composer \notin SePatterns(SE_COMPOSER_SELECTORS) THEN "false"
  ELSE IF b.textbox > DEFAULT_WAIT_TIME THEN "false"
  ELSE IF b.button \notin SePatterns(SE_POST_BUTTON_SELECTORS) THEN "false" ELSE "true"

\* both logins on one login page
CompareLogin ==
  /\ \E b \in LoginPages :
       eq' = [fn |-> "login", page |-> b,
              playwright |-> PwLoginOutcome(b), selenium |-> SeLoginOutcome(b)]
  /\ UNCHANGED <<bot, runs, stack, exc, creds, res, sess, url, rs, sw, cpI, h, p, api>>

\* both create_posts on one home page
ComparePost ==
  /\ \E b \in PostPages :
       eq' = [fn |-> "create_post", page |-> b,
              playwright |-> PwPostOutcome(b), selenium |-> SePostOutcome(b)]
  /\ UNCHANGED <<bot, runs, stack, exc, creds, res, sess, url, rs, sw, cpI, h, p, api>>

EquivNext == CompareLogin \/ ComparePost

EquivSpec == Init /\ [][EquivNext]_vars

\* ------------------------------------------------ the HTTP-API transport
\* str.lower() on the extensions the model uses
Lower(e) ==
  CASE e = "JPG" -> "jpg"
    [] e = "MKV" -> "mkv"
    [] OTHER -> e

\* a path given to the API client: does the file exist, and its suffix
ApiFiles == [exists : BOOLEAN, ext : {"jpg", "JPG", "png", "mp4", "flv", "mkv", "MKV", "webm", "txt", ""}]
Messages == {"", "hi"}
\* how the one network request of a call ends
Responses == {"ok", "error"}

\* post_text: if not message: raise ValueError; graph.put_object(...)
post_text(message, response) ==
  IF message = "" THEN [raised |-> "ValueError", requests |-> 0]
  ELSE [raised |-> IF response = "ok" THEN "none" ELSE "GraphAPIError", requests |-> 1]

\* post_image: FileNotFoundError, ValueError on the suffix, graph.put_photo(...)
post_image(file, response) ==
  IF ~file.exists THEN [raised |-> "FileNotFoundError", requests |-> 0]
  ELSE IF Lower(file.ext) \notin image_formats THEN [raised |-> "ValueError", requests |-> 0]
  ELSE [raised |-> IF response = "ok" THEN "none" ELSE "GraphAPIError", requests |-> 1]

\* variant: a post_video that leaves the check of the suffix to the server
post_video_Unchecked(file, response) ==
  IF ~file.exists THEN [raised |-> "FileNotFoundError", requests |-> 0]
  ELSE [raised |-> IF response = "ok" /\ Lower(file.ext) \in supported_formats
                   THEN "none" ELSE "HTTPError", requests |-> 1]

\* post_video: FileNotFoundError, ValueError on the suffix, requests.post(...)
post_video(file, response) ==
  IF ~file.exists THEN [raised |-> "FileNotFoundError", requests |-> 0]
  ELSE IF Lower(file.ext) \notin supported_formats THEN [raised |-> "ValueError", requests |-> 0]
  ELSE [raised |-> IF response = "ok" THEN "none" ELSE "HTTPError", requests |-> 1]

\* the suffix lists of run_api_mode
RUN_API_IMAGE_SUFFIXES == {"jpg", "jpeg", "png", "gif", "bmp", "webp"}
RUN_API_VIDEO_SUFFIXES == {"mp4", "mov", "avi", "wmv", "flv"}

\* run_api_mode: the method the first media file is routed to
Routed(media) ==
  IF media = <<>> THEN "post_text"
  ELSE IF Lower(media[1].ext) \in RUN_API_IMAGE_SUFFIXES THEN "post_image"
  ELSE IF Lower(media[1].ext) \in RUN_API_VIDEO_SUFFIXES THEN "post_video"
  ELSE "post_text"

\* the call record of one method call and its end
ApiCall(fn, message, media, routed, end) ==
  [fn |-> fn, message |-> message, media |-> media, routed |-> routed,
   raised |-> end.raised, requests |-> end.requests]

BotVars == <<bot, runs, stack, exc, creds, res, sess, url, rs, sw, cpI, h, p, eq>>

\* client.post_text(message)
PostText ==
  /\ \E m \in Messages, r \in Responses :
       api' = ApiCall("post_text", m, <<>>, "none", post_text(m, r))
  /\ UNCHANGED BotVars

\* client.post_image(image_path, message)
PostImage ==
  /\ \E f \in ApiFiles, m \in Messages, r \in Responses :
       api' = ApiCall("post_image", m, <<f>>, "none", post_image(f, r))
  /\ UNCHANGED BotVars

\* client.post_video(video_path, description=message)
PostVideo ==
  /\ \E f \in ApiFiles, m \in Messages, r \in Responses :
       api' = ApiCall("post_video", m, <<f>>, "none", post_video(f, r))
  /\ UNCHANGED BotVars

\* run_api_mode(message, media_paths): the post method is chosen by the
\* suffix of the first file; whatever it raises is printed by run_api_mode
RunApiMode ==
  /\ \E m \in Messages, r \in Responses, media \in {<<>>} \cup {<<f>> : f \in ApiFiles} :
       LET to == Routed(media) IN
       api' = ApiCall("run_api_mode", m, media, to,
                      CASE to = "post_image" -> post_image(media[1], r)
                        [] to = "post_video" -> post_video(media[1], r)
                        [] OTHER -> post_text(m, r))
  /\ UNCHANGED BotVars

ApiNext == PostText \/ PostImage \/ PostVideo \/ RunApiMode

ApiSpec == Init /\ [][ApiNext]_vars

TypeOK ==
  /\ bot \in Bots \cup {"none"}
  /\ runs \in 0..MaxRuns
  /\ exc \in {"none", "Base"} \cup ExceptionClasses
  /\ \A r \in Resources : res[r] \in {"none", "live", "released"}
  /\ h.result \in {"none", "true", "false"}
  /\ p.result \in {"none", "true", "false"}
  /\ stack # <<>>

\* ------------------------------------------------------------ properties
ResolverFns == {"try_click", "click_retry", "find_retry"}
\* the run is over: run_*_mode is in its except clause or has returned, or
\* the exception left the program
RunOver ==
  \/ Top.fn = "run" /\ Top.at \in {"except", "done"}
  \/ Top.fn = "main" /\ runs > 0

\* C1: when the location indicates a checkpoint after submission and still
\* indicates it when the manual-intervention wait is over, login does not
\* report success.
C1_CheckpointTimeoutIsFailure ==
  (h.cpSeen /\ h.cpEnd = "still") => h.result # "true"

\* C2: when the checkpoint clears to the main site before the wait is over,
\* the outcome login returns is Success.
C2_ClearedCheckpointSucceeds ==
  (h.cpSeen /\ h.cpEnd = "cleared" /\ h.result # "none") => h.result = "true"

\* C3: a run that entered the bot's context manager calls close_browser
\* exactly once, also when an exception leaves the with body; a run never
\* calls it twice, and a run that did not open a session never calls it.
C3_TeardownExactlyOnce ==
  /\ sess.closeCalls <= 1
  /\ (sess.entered /\ RunOver) => sess.closeCalls = 1
  /\ ~sess.entered => sess.closeCalls = 0

\* C3 witness: an exception left the with body mid-flow and the run ended
\* with one close_browser call.
C3_Witness ==
  sess.entered /\ sess.bodyRaised /\ sess.interrupted /\ RunOver /\ sess.closeCalls = 1

\* C4: when close_browser is over (returned or raised), every resource
\* that is still held had its release attempted.
C4_CloseAttemptsEveryRelease ==
  sess.closeDone => \A r \in Resources : res[r] = "live" => (r \in sess.attempted \/ r = "page")

\* C5: when start_browser fails, no resource it acquired is still live when
\* the failure reaches run_*_mode.
C5_FailedStartReleasesAll ==
  sess.startFailed => \A r \in Resources : res[r] # "live"

\* C6: in a resolver call over at least two candidates, once candidate i
\* resolves and none before it did, the call returns (clicks) the element
\* of candidate i and evaluates no later candidate.
C6_FirstMatchWins ==
  (rs.fn \in ResolverFns /\ rs.n >= 2 /\ rs.firstMatch # 0) =>
     /\ rs.result = "true"
     /\ rs.lastEval = rs.firstMatch
     /\ (rs.fn # "find_retry" => rs.clicked = rs.firstMatch)

\* C7: a resolver call with timeout T never keeps its caller for more than
\* T plus one polling interval.
C7_ResolveWithinTimeout ==
  rs.fn \in ResolverFns => rs.elapsed <= rs.timeout + PollInterval

\* C8: a dismisser sweep in which no pattern resolved and no button carried
\* a dismissal label made no click, raised nothing and left the location
\* as it was.
C8_EmptySweepHasNoEffect ==
  (sw.kind # "none" /\ ~sw.found) => (~sw.clicked /\ ~sw.raised /\ url = sw.url0)

\* C8 witness: a sweep of each kind returned with nothing found.
C8_Witness ==
  sw.done /\ ~sw.found /\ ~sw.active /\ sw.kind = "save_login" /\ bot = "playwright"

\* C9: no failure inside a dismisser reaches login or create_post: once
\* login detected success it returns True whatever the sweeps met.
C9_DismisserNeverPropagates ==
  /\ ~h.propagated
  /\ (h.detected /\ h.result # "none") => h.result = "true"

\* C10: when the email field does not resolve within its timeout, login
\* returns False, no password entry, no submit click and no create_post
\* happen in that run, and the run ends with close_browser called.
C10_EmailTimeoutFailsLogin ==
  h.emailRes = "timeout" =>
     /\ h.result # "true"
     /\ (h.result = "none" => (At("login", "except") \/ sess.interrupted))
     /\ ~h.passAttempted
     /\ h.submits = 0
     /\ p.result = "none" /\ p.navs = 0
     /\ RunOver => sess.closeCalls = 1

\* C10 witness: the email wait timed out, login returned False and the run
\* ended with the session torn down.
C10_Witness ==
  /\ h.emailRes = "timeout" /\ h.result = "false" /\ ~sess.interrupted
  /\ At("run", "done") /\ sess.closeCalls = 1

\* C11: login returns True only when the location it tested is the main
\* site (facebook.com, neither the login path nor a checkpoint page), and
\* only after the save-login sweep that follows the detection was entered.
C11_SuccessOnlyOnMainSite ==
  h.result = "true" =>
     /\ h.detected
     /\ IsMainSite(h.finalUrl)
     /\ "sweep" \in h.sweeps

\* the steps of create_post that need a required target or the page itself
RequiredSteps == {"navigation", "composer", "text", "submit"}

\* the run of the scenario: credentials present and accepted (every field of
\* the login form resolved and the submission led to the home location),
\* no checkpoint
HappyLogin ==
  /\ ~CredentialsMissing(creds)
  /\ h.submits = 1 /\ h.finalUrl = FACEBOOK_HOME_URL /\ ~h.cpSeen

\* C12: in a run with valid credentials and no checkpoint login returns
\* True, and the create_post that follows returns True when it has no
\* attachments and none of its required steps failed.
C12_HappyPathSucceeds ==
  (HappyLogin /\ h.result # "none") =>
     /\ h.result = "true"
     /\ (p.result # "none" /\ p.nmedia = 0 /\ p.cause \notin RequiredSteps) => p.result = "true"

\* the positions of the paths of m that exist, in the order of m
ExistingOf(m) ==
  LET Exists(k) == m[k].exists
  IN  SelectSeq([k \in 1..Len(m) |-> k], Exists)

\* C13: in the attachment loop a path that does not exist is passed over
\* and the loop goes on, the paths that exist are fed in the order given,
\* and create_post returns True once the composer, the text box and the
\* post button were resolved and used.
C13_MissingAttachmentSkipped ==
  /\ p.fed = ExistingOf(p.media)
  /\ p.upload = "true" => Len(p.media) = p.nmedia
  /\ p.upload \in {"no_picker", "no_input"} => p.media = <<>>
  /\ (p.result # "none" /\ p.composerRes = "clicked" /\ p.text /\ p.submitRes = "clicked")
        => (p.result = "true" /\ p.msg = "posted")

\* C13 witness: of two attachments the first does not exist and the second
\* does; the second alone was fed and create_post returned True.
C13_Witness ==
  /\ p.nmedia = 2 /\ Len(p.media) = 2
  /\ ~p.media[1].exists /\ p.media[2].exists
  /\ p.fed = <<2>> /\ p.upload = "true" /\ p.result = "true"

\* C14: when no candidate of the post button resolves, create_post returns
\* False with the message that the post button was not found, and the text
\* typed into the composer is still there: nothing clears it afterwards.
C14_SubmitNotFoundKeepsText ==
  p.submitRes = "absent" =>
     /\ p.result = "false" /\ p.msg = "submit_not_found"
     /\ ~p.submit
     /\ p.text

\* C14 witness: create_post returned after the post button never resolved,
\* with the text entered.
C14_Witness ==
  p.submitRes = "absent" /\ p.text /\ p.result = "false" /\ At("run", "after_post")

\* C15: when no candidate of the "start a post" affordance resolves,
\* create_post returns False with the message that the composer was not
\* found, and that call starts no upload, enters no text and clicks no
\* post button.
C15_ComposerNotFoundStops ==
  p.composerRes = "absent" =>
     /\ p.result = "false" /\ p.msg = "composer_not_found"
     /\ p.upload = "none" /\ p.media = <<>> /\ p.fed = <<>>
     /\ ~p.text
     /\ ~p.submit /\ p.submitRes = "none"

\* C15 witness: a create_post with attachments returned after the composer
\* affordance never resolved.
C15_Witness ==
  p.composerRes = "absent" /\ p.nmedia > 0 /\ p.result = "false" /\ At("run", "after_post")

\* C16: in a run whose email or password is empty the constructor raises
\* the configuration error, no resource of a browser session is ever
\* acquired and neither login nor close_browser is called.
C16_MissingCredentialsNoSession ==
  (bot # "none" /\ CredentialsMissing(creds)) =>
     /\ \A r \in Resources : res[r] = "none"
     /\ ~sess.entered /\ ~sess.startFailed /\ sess.closeCalls = 0
     /\ h = NoH /\ p = NoP
     /\ Top \in {F("run", "construct"), F("run", "except"), F("run", "done"), F("main", "menu")}
     /\ ~At("run", "construct") => sess.configError

\* C16 witness: a run with an email and no password ended with the
\* configuration error.
C16_Witness ==
  /\ creds.email # "" /\ creds.password = ""
  /\ sess.configError /\ At("run", "done")

\* C17: login enters a dismisser sweep right after it navigated to the
\* login page, before it looks for the email field, and enters the
\* save-login sweep right after it detected success, before it returns.
C17_MandatorySweeps ==
  /\ h.sweeps # {} => h.navs = 1
  /\ h.emailRes # "none" => "email" \in h.sweeps
  /\ (h.navs = 1 /\ "email" \notin h.sweeps) =>
        (At("dismiss_popups", "start") \/ sess.interrupted)
  /\ (h.detected /\ h.result # "none") => "sweep" \in h.sweeps
  /\ (h.detected /\ "sweep" \notin h.sweeps) =>
        (At("save_login", "start") \/ sess.interrupted)

\* C17 witness: a login returned True after the sweep that follows the
\* navigation and the sweeps that follow the detection.
C17_Witness ==
  h.result = "true" /\ h.sweeps = {"email", "sweep", "return_true"} /\ h.emailFilled

\* a call of fn is in progress
InCall(fn) == \E k \in 1..Len(stack) : stack[k].fn = fn

\* C18: create_post runs only in a run whose login returned True, and
\* close_browser is called after login and create_post are over: after the
\* failed login, or after the create_post that followed a successful one.
C18_PostOnlyAfterLoginThenTeardown ==
  /\ (InCall("create_post") \/ p.navs > 0 \/ p.result # "none") => h.result = "true"
  /\ h.result = "false" => p = NoP
  /\ sess.closeCalls > 0 =>
        /\ ~InCall("login") /\ ~InCall("create_post")
        /\ ~sess.bodyRaised =>
              /\ h.result # "none"
              /\ h.result = "true" => p.result # "none"
  /\ (sess.entered /\ RunOver) => sess.closeCalls = 1

\* C18 witness: login returned True, create_post ran and returned, and the
\* run ended with the session closed.
C18_Witness ==
  /\ h.result = "true" /\ p.result = "false" /\ p.navs = 1
  /\ sess.closeCalls = 1 /\ ~sess.bodyRaised /\ At("run", "done")

\* C19: a resolver call in which no candidate resolved ends by returning
\* the not-found value (False) to its caller, never by raising.
C19_NotFoundIsReturned ==
  (rs.fn \in ResolverFns /\ rs.firstMatch = 0 /\ rs.result # "none") => rs.result = "false"

\* C20: every attachment fed to the file input exists and has an extension
\* of the supported image or video set.
C20_OnlySupportedAttachmentsFed ==
  \A i \in 1..Len(p.fed) :
     /\ p.media[p.fed[i]].exists
     /\ p.media[p.fed[i]].ext \in image_formats \cup supported_formats

\* C21: no timeout and no driver error raised inside login or create_post
\* leaves them: the with body of run_*_mode is left by an exception only
\* on a KeyboardInterrupt, and an exception of class Exception reaches
\* run_*_mode only from the constructor, start_browser or close_browser.
C21_FailuresAreReturned ==
  /\ At("run", "exit_exc") => exc = "Base"
  /\ sess.bodyRaised => sess.interrupted
  /\ (exc \in ExceptionClasses /\ Top.fn = "run") =>
        (sess.configError \/ sess.startFailed \/ sess.closeRaised)
  /\ (exc \in ExceptionClasses /\ Top.fn # "run") =>
        Top \in {F("login", "except"), F("create_post", "except"), F("upload", "except")}

\* C21 witness: a driver error raised inside create_post came back to
\* run_*_mode as the return value False.
C21_Witness ==
  p.msg = "error" /\ p.result = "false" /\ exc = "none" /\ At("run", "after_post")

\* C22: whatever the page does, a call of login and a call of create_post
\* ends: it returns an outcome, or a KeyboardInterrupt unwinds it.
C22_LoginAndPostReturn ==
  /\ InCall("login") ~>
       (~InCall("login") /\ (h.result # "none" \/ sess.interrupted))
  /\ InCall("create_post") ~>
       (~InCall("create_post") /\ (p.result # "none" \/ sess.interrupted))

\* C22 witness: the checkpoint never cleared and the 2FA wait has used up
\* its manual_2fa_timeout iterations.
C22_Witness ==
  At("login", "cp_loop") /\ cpI = MANUAL_2FA_TIMEOUT /\ IsCheckpoint(url)

\* C23: an element handle kept between two statements is used only while
\* no navigation happened since it was resolved: the text box of
\* create_post, the file input of the upload, and the element a click
\* resolver clicked were all found after the latest navigation.
C23_NoHandleAcrossNavigation ==
  /\ ~p.stale
  /\ At("create_post", "type") => rs.nav = Navigations
  /\ At("upload", "feed") => p.inputNav = Navigations
  /\ rs.clicked # 0 => rs.nav = Navigations

\* C23 witness: after the three navigations of a run, Selenium typed the
\* text through the handle _find_element_with_retry returned and fed a
\* file to the file input it had resolved.
C23_Witness ==
  /\ bot = "selenium" /\ Navigations = 3
  /\ p.text /\ Len(p.fed) > 0 /\ ~p.stale /\ p.inputNav = 3

\* C24: no diagnostic line of a run contains the password, so the lines
\* printed do not depend on it.
C24_SecretNeverPrinted ==
  h.diag # "exception_with_secret"

\* C25: when the checkpoint wait of login is over, it lasted up to the
\* first poll at which the location no longer indicated a checkpoint, and
\* when the checkpoint never cleared it lasted between the manual timeout
\* and the manual timeout plus one poll interval.
C25_CheckpointWaitEndsAtFirstClearPoll ==
  (At("login", "verdict") /\ h.cpSeen) =>
     IF h.cpClearedAt > 0
     THEN cpI = h.cpClearedAt
     ELSE cpI \in MANUAL_2FA_TIMEOUT .. (MANUAL_2FA_TIMEOUT + PollInterval)

\* C26: in one call of login the login button is clicked at most once and
\* only after the email and the password were filled in, and the login
\* page is navigated to once: a failed attempt is not started over.
C26_SingleLoginAttempt ==
  /\ h.submits <= 1
  /\ h.submits = 1 => (h.emailFilled /\ h.passFilled)
  /\ h.navs <= 1
  /\ (h.emailRes # "none" \/ h.passAttempted \/ h.submits > 0) => h.navs = 1

\* C26 witness: login failed after its one click on the login button and
\* returned False without another attempt.
C26_Witness ==
  /\ At("run", "after_login") /\ h.result = "false"
  /\ h.submits = 1 /\ h.navs = 1 /\ h.emailFilled /\ h.passFilled

\* the steps of create_post in the order the claim gives, the attachment
\* sub-flow being one of them when n attachments (n > 0) were given
PostStepOrder(n) ==
  IF n > 0 THEN <<"navigate", "sweep", "composer", "attach", "text", "submit">>
  ELSE <<"navigate", "sweep", "composer", "text", "submit">>

\* C27: the steps create_post has taken so far are the first steps of
\* navigate, sweep, composer click, attachment sub-flow (when attachments
\* were given), text entry, submit click, in that order.
C27_PostStepsInOrder ==
  /\ Len(p.steps) <= Len(PostStepOrder(p.nmedia))
  /\ \A i \in 1..Len(p.steps) : p.steps[i] = PostStepOrder(p.nmedia)[i]

\* C27 witness: a create_post with attachments went through all six steps
\* and returned True.
C27_Witness ==
  p.nmedia > 0 /\ Len(p.steps) = 6 /\ p.result = "true"

C29_TextFallbackComesLast ==
  (sw.kind = "save_login" /\ sw.fallback # "none") =>
     /\ sw.scanAfter = SaveLoginPatterns(bot)
     /\ sw.scanClicks <= 1

\* C30: a click resolver (_try_click, _click_element_with_retry) reports
\* not-found only when no candidate resolved, and the element it clicks is
\* the one of the first candidate that resolved: a click that another
\* element intercepts changes neither.
C30_InterceptedClickStillSucceeds ==
  rs.fn \in {"try_click", "click_retry"} =>
     /\ rs.result = "false" => rs.firstMatch = 0
     /\ rs.clicked # 0 => rs.clicked = rs.firstMatch

\* C31: between two postings of the menu no browser resource is live: the
\* posting that ended released all of its session, and the bot of the
\* posting that starts holds nothing yet.
C31_SessionReleasedBetweenPostings ==
  /\ At("main", "menu") => \A r \in Resources : res[r] # "live"
  /\ At("run", "construct") => \A r \in Resources : res[r] = "none"

\* C32: on every page behaviour the Playwright bot and the Selenium bot
\* return the same outcome, of login and of create_post.
C32_BotsAgree ==
  eq.playwright = eq.selenium

\* the attachment sub-flow of the create_post failed: the media picker was
\* not clicked, no file input was found, or an exception was caught
UploadFailed == p.upload \in {"no_picker", "no_input", "raised"}

C34_ApiRejectsBeforeRequest ==
  /\ (api.fn = "post_image" /\ (~api.media[1].exists \/ Lower(api.media[1].ext) \notin image_formats))
        => (api.raised \in {"FileNotFoundError", "ValueError"} /\ api.requests = 0)
  /\ (api.fn = "post_video" /\ (~api.media[1].exists \/ Lower(api.media[1].ext) \notin supported_formats))
        => (api.raised \in {"FileNotFoundError", "ValueError"} /\ api.requests = 0)
  /\ (api.fn = "post_text" /\ api.message = "")
        => (api.raised = "ValueError" /\ api.requests = 0)

\* C34 witness: post_video was given an existing file with a suffix outside
\* the supported set and raised ValueError with no request made.
C34_Witness ==
  /\ api.fn = "post_video" /\ api.media[1].exists /\ api.media[1].ext = "txt"
  /\ api.raised = "ValueError" /\ api.requests = 0

\* C35: run_api_mode routes the first media file to post_image when
\* post_image accepts its suffix, to post_video when post_video accepts it,
\* and to the text-only fallback only when neither accepts it.
C35_RoutingMatchesClient ==
  (api.fn = "run_api_mode" /\ api.media # <<>>) =>
     LET e == Lower(api.media[1].ext) IN
     /\ e \in image_formats => api.routed = "post_image"
     /\ e \in supported_formats => api.routed = "post_video"
     /\ api.routed = "post_text" => e \notin image_formats \cup supported_formats

====
